---- MODULE Spec2Model ----
(***************************************************************************)
(* A model of the ECS runtime (kubamik2/ecs): the World with its entity    *)
(* allocator, component registry, groups and deferred command buffer; the  *)
(* Schedule with its parallel buckets; and the double-buffered EventQueue. *)
(* Each part has its own specification over the shared variables:          *)
(*   Spec          the World driven by direct mutators and command replay  *)
(*   SpecSchedule  Schedule::add_system / run / execute with its tasks     *)
(*   SpecEvents    EventQueue send / update and one EventReader cursor     *)
(***************************************************************************)
EXTENDS Integers, Sequences, FiniteSets, TLC

(***************************************************************************)
(* Bounds of the model                                                     *)
(***************************************************************************)
\* calls made on the World (direct or enqueued) in one run; no run issues more
\* entity ids or versions than that
MaxOps == 3
\* calls of Schedule::add_system, SystemId::mark_dead and Schedule::run
MaxCalls == 6
\* events sent to the EventQueue
MaxEvents == 3
\* calls made on the World by the program that builds entity hierarchies
MaxHierarchyOps == 6
\* calls made on the World by the program that registers types
MaxRegistryOps == 6
\* calls made on the World before and between the buckets of the program that
\* reserves entities from parallel systems
MaxReserveOps == 4
\* systems of one parallel bucket (it has PARALLEL_EXECUTION_THRESHOLD systems or
\* more) that reserve an entity each
MaxTasks == 2
\* schedule labels (and observer event types) of the program that chains runs
MaxChain == 3
\* calls made on the World by the programs that run schedules and send signals
MaxAppOps == 5
\* calls that register one of the last component types of the program that
\* fills the registry
MaxLimitOps == 4
\* calls made on one SparseSet or BlobSparseSet
\* calls made by the program that runs one schedule in several Worlds
MaxLinkOps == 5

\* calls made by the program that uses an allocator whose counters are close
\* to the end of their range
MaxWrapOps == 5

\* the ids whose handles that program keeps and despawns
TrackedIds == {0, 1}

\* the two ways the crate can be built: with and without overflow checks
Builds == {"debug", "release"}

\* calls made by the program whose components have hooks
MaxHookOps == 4

\* calls made by the program that sends signals to the Observers in batches
MaxSignalOps == 6

MaxSetOps == 5

(***************************************************************************)
(* Program constants                                                       *)
(***************************************************************************)
\* SparseIndex::NONE (usize::MAX), written -1 here
NONE == -1
\* range of the u16 counters of Entities
U16 == 65536
MAX_COMPONENTS == 128

Ids == 0 .. (MaxOps - 1)
CompTypes == {"A", "B"}
ResTypes == {"R", "S"}
Vals == {1, 2}
\* schedule labels A, B, ..; label k inserts the resource Success[k]
Labels == 1 .. MaxChain
Success == << "SuccessA", "SuccessB", "SuccessC", "SuccessD", "SuccessE" >>
\* the event types: Changed<R>, and one per label for the observer chain
ChainEvents == << "A", "B", "C", "D", "E" >>
EventTypes == {"Changed<R>"} \cup {ChainEvents[k] : k \in Labels}
\* the resource type of the EventQueue<E> of an event type
EventQueueOf(e) == "EventQueue<" \o e \o ">"

Min(a, b) == IF a <= b THEN a ELSE b
Max(a, b) == IF a >= b THEN a ELSE b

\* Option<T>: None is <<>>, Some(x) is <<x>>
None == << >>
Some(x) == << x >>

(***************************************************************************)
(* storage/sparse_set: SparseSet<T> and BlobSparseSet (value level)        *)
(***************************************************************************)
SparseSetNew == [sparse_array |-> [k \in Ids |-> NONE], dense |-> << >>, mapping |-> << >>]

SparseSetContains(ss, id) == ss.sparse_array[id] # NONE

SparseSetGet(ss, id) ==
    IF ss.sparse_array[id] = NONE THEN None
    ELSE Some(ss.dense[ss.sparse_array[id] + 1])

\* an insert that always appends, present or not
SparseSetInsertAppend(ss, id, value) ==
    [sparse_array |-> [ss.sparse_array EXCEPT ![id] = Len(ss.dense)],
     dense |-> Append(ss.dense, value),
     mapping |-> Append(ss.mapping, id)]

\* insert: overwrite in place when present, else push to dense and mapping
SparseSetInsert(ss, id, value) ==
    IF ss.sparse_array[id] # NONE
    THEN [ss EXCEPT !.dense[ss.sparse_array[id] + 1] = value]
    ELSE [sparse_array |-> [ss.sparse_array EXCEPT ![id] = Len(ss.dense)],
          dense |-> Append(ss.dense, value),
          mapping |-> Append(ss.mapping, id)]

SwapSeq(s, i, j) == [s EXCEPT ![i] = s[j], ![j] = s[i]]
PopSeq(s) == SubSeq(s, 1, Len(s) - 1)

\* remove: swap with the back element, patch its sparse index, pop
\* a swap-remove that swaps the keys but not the values
SparseSetRemoveKeysOnly(ss, id) ==
    IF ss.sparse_array[id] = NONE THEN ss
    ELSE LET index == ss.sparse_array[id]
             dense_len == Len(ss.dense)
             back == ss.mapping[dense_len]
         IN [sparse_array |-> [ss.sparse_array EXCEPT ![back] = index, ![id] = NONE],
             dense |-> PopSeq(ss.dense),
             mapping |-> PopSeq(SwapSeq(ss.mapping, index + 1, dense_len))]

SparseSetRemove(ss, id) ==
    IF ss.sparse_array[id] = NONE THEN ss
    ELSE LET index == ss.sparse_array[id]
             dense_len == Len(ss.dense)
             back == ss.mapping[dense_len]
         IN [sparse_array |-> [ss.sparse_array EXCEPT ![back] = index, ![id] = NONE],
             dense |-> PopSeq(SwapSeq(ss.dense, index + 1, dense_len)),
             mapping |-> PopSeq(SwapSeq(ss.mapping, index + 1, dense_len))]

\* SparseSet::insert_with_index: as insert, and the dense index is returned
SparseSetInsertWithIndex(ss, id, value) ==
    IF ss.sparse_array[id] # NONE
    THEN [ss |-> [ss EXCEPT !.dense[ss.sparse_array[id] + 1] = value],
          index |-> ss.sparse_array[id]]
    ELSE [ss |-> [sparse_array |-> [ss.sparse_array EXCEPT ![id] = Len(ss.dense)],
                  dense |-> Append(ss.dense, value),
                  mapping |-> Append(ss.mapping, id)],
          index |-> Len(ss.dense)]

\* a removal by index that leaves the sparse index of the back element alone
SparseSetRemoveByIndexNoPatch(ss, id, index) ==
    LET dense_len == Len(ss.dense)
    IN [sparse_array |-> [ss.sparse_array EXCEPT ![id] = NONE],
        dense |-> PopSeq(SwapSeq(ss.dense, index + 1, dense_len)),
        mapping |-> PopSeq(SwapSeq(ss.mapping, index + 1, dense_len))]

\* SparseSet::remove_by_index_unchecked: the caller knows the dense index
SparseSetRemoveByIndexUnchecked(ss, id, index) ==
    LET dense_len == Len(ss.dense)
        back == ss.mapping[dense_len]
    IN [sparse_array |-> [ss.sparse_array EXCEPT ![back] = index, ![id] = NONE],
        dense |-> PopSeq(SwapSeq(ss.dense, index + 1, dense_len)),
        mapping |-> PopSeq(SwapSeq(ss.mapping, index + 1, dense_len))]

\* SparseSet::entry and BlobSparseSet::entry: Occupied with the dense index, or
\* Vacant
SparseSetEntry(ss, id) ==
    [occupied |-> ss.sparse_array[id] # NONE, id |-> id, index |-> ss.sparse_array[id]]

\* Entry::insert of SparseSet: OccupiedEntry::insert swaps the value in, a
\* VacantEntry inserts with insert_with_index
SparseSetEntryInsert(ss, entry, value) ==
    IF entry.occupied THEN [ss EXCEPT !.dense[entry.index + 1] = value]
    ELSE SparseSetInsertWithIndex(ss, entry.id, value).ss

\* OccupiedEntry::remove of SparseSet
SparseSetEntryRemove(ss, entry) == SparseSetRemoveByIndexUnchecked(ss, entry.id, entry.index)

\* SparseSet::clear and BlobSparseSet::clear: the three vectors are emptied; a
\* key beyond the end of the sparse array reads as NONE
SparseSetClear(ss) == [sparse_array |-> [k \in DOMAIN ss.sparse_array |-> NONE],
                       dense |-> << >>, mapping |-> << >>]

\* BlobSparseSet::insert_ptr: the bytes are swapped with the stored ones when
\* the key is present (value is then the prior value), else pushed
BlobSparseSetInsertPtr(ss, id, value) ==
    IF ss.sparse_array[id] # NONE
    THEN LET index == ss.sparse_array[id]
         IN [ss |-> [ss EXCEPT !.dense[index + 1] = value], index |-> index,
             was_present |-> TRUE, value |-> ss.dense[index + 1]]
    ELSE [ss |-> [sparse_array |-> [ss.sparse_array EXCEPT ![id] = Len(ss.dense)],
                  dense |-> Append(ss.dense, value),
                  mapping |-> Append(ss.mapping, id)],
          index |-> Len(ss.dense), was_present |-> FALSE, value |-> value]

\* BlobSparseSet::insert
BlobSparseSetInsert(ss, id, value) ==
    LET r == BlobSparseSetInsertPtr(ss, id, value)
    IN [ss |-> r.ss, ret |-> IF r.was_present THEN Some(r.value) ELSE None]

\* BlobSparseSet::remove: the value is dropped
BlobSparseSetRemove(ss, id) ==
    IF ss.sparse_array[id] = NONE THEN ss
    ELSE LET index == ss.sparse_array[id]
             dense_len == Len(ss.dense)
             back == ss.mapping[dense_len]
         IN [sparse_array |-> [ss.sparse_array EXCEPT ![back] = index, ![id] = NONE],
             dense |-> PopSeq(SwapSeq(ss.dense, index + 1, dense_len)),
             mapping |-> PopSeq(SwapSeq(ss.mapping, index + 1, dense_len))]

\* a remove_as that swaps the keys but not the values before it pops
BlobSparseSetRemoveAsBack(ss, id) ==
    IF ss.sparse_array[id] = NONE THEN [ss |-> ss, ret |-> None]
    ELSE LET index == ss.sparse_array[id]
             dense_len == Len(ss.dense)
             back == ss.mapping[dense_len]
         IN [ss |-> [sparse_array |-> [ss.sparse_array EXCEPT ![back] = index, ![id] = NONE],
                     dense |-> PopSeq(ss.dense),
                     mapping |-> PopSeq(SwapSeq(ss.mapping, index + 1, dense_len))],
             ret |-> Some(ss.dense[dense_len])]

\* BlobSparseSet::remove_as: the value is returned (BlobVec::pop_as)
BlobSparseSetRemoveAs(ss, id) ==
    IF ss.sparse_array[id] = NONE THEN [ss |-> ss, ret |-> None]
    ELSE LET index == ss.sparse_array[id]
             dense_len == Len(ss.dense)
             back == ss.mapping[dense_len]
             dense == SwapSeq(ss.dense, index + 1, dense_len)
         IN [ss |-> [sparse_array |-> [ss.sparse_array EXCEPT ![back] = index, ![id] = NONE],
                     dense |-> PopSeq(dense),
                     mapping |-> PopSeq(SwapSeq(ss.mapping, index + 1, dense_len))],
             ret |-> Some(dense[dense_len])]

\* BlobSparseSet::remove_by_index
BlobSparseSetRemoveByIndex(ss, id, index) ==
    LET dense_len == Len(ss.dense)
        back == ss.mapping[dense_len]
    IN [sparse_array |-> [ss.sparse_array EXCEPT ![back] = index, ![id] = NONE],
        dense |-> PopSeq(SwapSeq(ss.dense, index + 1, dense_len)),
        mapping |-> PopSeq(SwapSeq(ss.mapping, index + 1, dense_len))]

\* Entry::insert of BlobSparseSet: OccupiedEntry::insert assigns the value, a
\* VacantEntry inserts with insert_with_index (insert_ptr)
BlobSparseSetEntryInsert(ss, entry, value) ==
    IF entry.occupied THEN [ss EXCEPT !.dense[entry.index + 1] = value]
    ELSE BlobSparseSetInsertPtr(ss, entry.id, value).ss

(***************************************************************************)
(* Entity and the World record                                             *)
(***************************************************************************)
EntityNew(id, version) == [id |-> id, version |-> version]

WorldNew ==
    [ free_entity_ids |-> << >>,
      entity_versions |-> << >>,
      claimed_free_entities |-> 0,
      highest_free_entity_id |-> 0,
      children |-> SparseSetNew,
      component_records |-> [t \in CompTypes |-> NONE],
      components |-> << >>,
      component_on_remove |-> << >>,
      component_len |-> 0,
      groups |-> [s \in {} |-> SparseSetNew],
      entity_signatures |-> SparseSetNew,
      resource_ids |-> [r \in ResTypes |-> NONE],
      resources |-> SparseSetNew,
      command_buffer |-> << >>,
      panicked |-> FALSE ]

Panic(w) == [w EXCEPT !.panicked = TRUE]

(***************************************************************************)
(* entity.rs: Entities                                                     *)
(***************************************************************************)
\* Entities::spawn(&self): only the two atomic counters change
EntitiesSpawn(w) ==
    LET free == w.free_entity_ids
        fresh(x) == [entity |-> EntityNew(x.highest_free_entity_id, 0),
                     w |-> [x EXCEPT !.highest_free_entity_id = (@ + 1) % U16]]
    IN IF Len(free) = 0 THEN fresh(w)
       ELSE LET claimed == w.claimed_free_entities
                w1 == [w EXCEPT !.claimed_free_entities = @ + 1]
            IN IF claimed <= Len(free) - 1
               THEN LET entity_id == free[(Len(free) - 1 - claimed) + 1]
                    IN [entity |-> EntityNew(entity_id, w.entity_versions[entity_id + 1]),
                        w |-> w1]
               ELSE fresh(w1)

\* a load in place of the fetch_add: the counter is read and left as it was
AtomicLoad(w, counter) == [old |-> w[counter], w |-> w]

\* AtomicUsize / AtomicU16 fetch_add(1, Relaxed): one indivisible read-modify-write
\* a reservation that also takes the claimed id off the free list
FetchAddTake(w, counter) ==
    [old |-> w[counter],
     w |-> [w EXCEPT ![counter] = IF counter = "highest_free_entity_id"
                                  THEN (@ + 1) % U16 ELSE @ + 1,
                     !.free_entity_ids = IF counter = "claimed_free_entities" /\ Len(@) > 0
                                         THEN PopSeq(@) ELSE @]]

FetchAdd(w, counter) ==
    [old |-> w[counter],
     w |-> [w EXCEPT ![counter] = IF counter = "highest_free_entity_id"
                                  THEN (@ + 1) % U16 ELSE @ + 1]]

\* (free_entity_ids.len() - 1).checked_sub(claimed)
FreeEntityIndex(w, claimed) ==
    IF claimed <= Len(w.free_entity_ids) - 1
    THEN Some(Len(w.free_entity_ids) - 1 - claimed) ELSE None

\* the entity of a free slot: its id and the version stored for the id
EntityOfFreeSlot(w, free_entity_index) ==
    LET entity_id == w.free_entity_ids[free_entity_index + 1]
    IN EntityNew(entity_id, w.entity_versions[entity_id + 1])

EntitiesIsAlive(w, entity) ==
    IF entity.id >= Len(w.entity_versions) THEN TRUE
    ELSE entity.version = w.entity_versions[entity.id + 1]

\* one cell of a command buffer: a CommandMeta header (kind, entity, child, f,
\* data_size) or one unit of payload (kind "data", value)
Cell(kind, entity, child, f, data_size, value) ==
    [kind |-> kind, entity |-> entity, child |-> child, f |-> f,
     data_size |-> data_size, value |-> value]

NoEntity == EntityNew(NONE, NONE)

DataCell(value) == Cell("data", NoEntity, NoEntity, << >>, 0, value)

\* Commands::despawn: a header without payload
CommandsDespawn(queue, entity) ==
    Append(queue, Cell("Despawn", entity, NoEntity, << >>, 0, 0))

\* a despawn that queues nothing for the children
CommandsDespawnNone(queue, children) == queue

RECURSIVE CommandsDespawnAll(_, _)
CommandsDespawnAll(queue, children) ==
    IF children = << >> THEN queue
    ELSE CommandsDespawnAll(CommandsDespawn(queue, Head(children)), Tail(children))

\* a despawn that frees the id but keeps the stored version
EntitiesDespawnKeepVersion(w, entity) ==
    LET free == w.free_entity_ids
        n == Min(w.claimed_free_entities, Len(free))
        versions == w.entity_versions
        resized == IF entity.id >= Len(versions)
                   THEN versions \o [i \in 1 .. (entity.id + 1 - Len(versions)) |-> 0]
                   ELSE versions
    IN [w EXCEPT !.free_entity_ids = Append(SubSeq(free, 1, Len(free) - n), entity.id),
                 !.claimed_free_entities = 0,
                 !.entity_versions = resized,
                 !.children = SparseSetRemove(@, entity.id)]

\* a despawn that leaves the claimed slots on the free list
EntitiesDespawnKeepClaimed(w, entity) ==
    LET versions == w.entity_versions
        resized == IF entity.id >= Len(versions)
                   THEN versions \o [i \in 1 .. (entity.id + 1 - Len(versions)) |-> 0]
                   ELSE versions
        children == SparseSetGet(w.children, entity.id)
        w1 == [w EXCEPT !.free_entity_ids = Append(@, entity.id),
                        !.claimed_free_entities = 0,
                        !.entity_versions = [resized EXCEPT ![entity.id + 1] = (@ + 1) % U16],
                        !.children = SparseSetRemove(@, entity.id)]
    IN IF children = None THEN w1
       ELSE [w1 EXCEPT !.command_buffer = CommandsDespawnAll(@, children[1])]

\* a despawn that pushes the id to the free list twice
EntitiesDespawnPushTwice(w, entity) ==
    LET free == w.free_entity_ids
        n == Min(w.claimed_free_entities, Len(free))
        versions == w.entity_versions
        resized == IF entity.id >= Len(versions)
                   THEN versions \o [i \in 1 .. (entity.id + 1 - Len(versions)) |-> 0]
                   ELSE versions
        children == SparseSetGet(w.children, entity.id)
        w1 == [w EXCEPT !.free_entity_ids =
                            Append(Append(SubSeq(free, 1, Len(free) - n), entity.id), entity.id),
                        !.claimed_free_entities = 0,
                        !.entity_versions = [resized EXCEPT ![entity.id + 1] = (@ + 1) % U16],
                        !.children = SparseSetRemove(@, entity.id)]
    IN IF children = None THEN w1
       ELSE [w1 EXCEPT !.command_buffer = CommandsDespawnAll(@, children[1])]

\* Entities::despawn: drop the claimed free slots, free the id, bump the version,
\* queue the despawn of the children
EntitiesDespawn(w, entity) ==
    LET free == w.free_entity_ids
        n == Min(w.claimed_free_entities, Len(free))
        versions == w.entity_versions
        resized == IF entity.id >= Len(versions)
                   THEN versions \o [i \in 1 .. (entity.id + 1 - Len(versions)) |-> 0]
                   ELSE versions
        children == SparseSetGet(w.children, entity.id)
        w1 == [w EXCEPT !.free_entity_ids = Append(SubSeq(free, 1, Len(free) - n), entity.id),
                        !.claimed_free_entities = 0,
                        !.entity_versions = [resized EXCEPT ![entity.id + 1] = (@ + 1) % U16],
                        !.children = SparseSetRemove(@, entity.id)]
    IN IF children = None THEN w1
       ELSE [w1 EXCEPT !.command_buffer = CommandsDespawnAll(@, children[1])]

\* Entities::add_child: parent and child differ; no duplicate in the list
EntitiesAddChild(w, parent, child) ==
    IF parent = child THEN Panic(w)
    ELSE LET cur == SparseSetGet(w.children, parent.id)
             list == IF cur = None THEN << >> ELSE cur[1]
         IN IF \E i \in 1 .. Len(list) : list[i] = child
            THEN [w EXCEPT !.children = SparseSetInsert(@, parent.id, list)]
            ELSE [w EXCEPT !.children = SparseSetInsert(@, parent.id, Append(list, child))]

\* Entities::remove_child: the list is created when absent; swap_remove of the
\* first position that holds the child
EntitiesRemoveChild(w, parent, child) ==
    LET cur == SparseSetGet(w.children, parent.id)
        list == IF cur = None THEN << >> ELSE cur[1]
        found == {i \in 1 .. Len(list) : list[i] = child}
    IN IF found = {} THEN [w EXCEPT !.children = SparseSetInsert(@, parent.id, list)]
       ELSE LET index == CHOOSE i \in found : \A j \in found : i <= j
            IN [w EXCEPT !.children =
                    SparseSetInsert(@, parent.id, PopSeq(SwapSeq(list, index, Len(list))))]

\* Entities::remove_children
EntitiesRemoveChildren(w, parent) ==
    [w EXCEPT !.children = SparseSetRemove(@, parent.id)]

\* Entities::children
EntitiesChildren(w, entity) ==
    LET cur == SparseSetGet(w.children, entity.id)
    IN IF cur = None THEN << >> ELSE cur[1]

\* Commands::insert_resource: header and one cell of payload
CommandsInsertResource(queue, r, resource) ==
    Append(queue, Cell("InsertResource", NoEntity, NoEntity, << r >>, 1, 0))
        \o << DataCell(resource) >>

\* the component types that override the hooks of the Component trait, both
\* a struct of one field: struct Spawner(u8), struct Tracker(u8)
HookedCompTypes == {"Spawner", "Tracker"}

\* Component::on_add and Component::on_remove.  The hooked types override
\* both: on_add is commands.insert_resource(Added(self.0)), on_remove is
\* commands.insert_resource(Removed(self.0)); every other type keeps the
\* empty default.  hooks is the history of the calls, kept by the World of
\* the program that has those types.
Overrides(w, t) == "hooks" \in DOMAIN w /\ t \in HookedCompTypes

ComponentOnAdd(w, t, component) ==
    IF ~Overrides(w, t) THEN w
    ELSE [w EXCEPT !.command_buffer = CommandsInsertResource(@, "Added", component),
                   !.hooks = Append(@, [hook |-> "on_add", type |-> t, value |-> component])]

ComponentOnRemove(w, t, component) ==
    IF ~Overrides(w, t) THEN w
    ELSE [w EXCEPT !.command_buffer = CommandsInsertResource(@, "Removed", component),
                   !.hooks = Append(@, [hook |-> "on_remove", type |-> t, value |-> component])]

(***************************************************************************)
(* component.rs: Components.  A Signature is the set of its set bits.      *)
(***************************************************************************)
RecordsLen(w) == Cardinality({t \in DOMAIN w.component_records : w.component_records[t] # NONE})

GroupsSet(groups, signature, group) ==
    [s \in (DOMAIN groups) \cup {signature} |-> IF s = signature THEN group ELSE groups[s]]

\* groups.entry(signature).or_default()
GroupsEntry(groups, signature) ==
    IF signature \in DOMAIN groups THEN groups[signature] ELSE SparseSetNew

\* a register_component without the assertions on the id
ComponentsRegisterComponentUnlimited(w, t) ==
    IF w.component_records[t] # NONE THEN w
    ELSE [w EXCEPT !.component_records[t] = w.component_len,
                   !.components = Append(@, SparseSetNew),
                   !.component_on_remove = Append(@, t),
                   !.component_len = @ + 1]

\* Components::register_component: registers the storage and the on_remove hook
ComponentsRegisterComponent(w, t) ==
    IF w.component_records[t] # NONE THEN w
    ELSE IF w.component_len >= MAX_COMPONENTS THEN Panic(w)
    ELSE [w EXCEPT !.component_records[t] = w.component_len,
                   !.components = Append(@, SparseSetNew),
                   !.component_on_remove = Append(@, t),
                   !.component_len = @ + 1]

\* Components::get_component
ComponentsGetComponent(w, entity, t) ==
    IF w.component_records[t] = NONE THEN None
    ELSE SparseSetGet(w.components[w.component_records[t] + 1], entity.id)

\* Components::set_component: registers C lazily (storage only, no hook), moves
\* the entity to the group of the extended signature, stores the value and
\* returns the displaced one
ComponentsSetComponent(w, entity, t, component) ==
    LET components_num == RecordsLen(w)
        w1 == IF w.component_records[t] # NONE THEN w
              ELSE IF w.component_len + 1 > MAX_COMPONENTS THEN Panic(w)
              ELSE [w EXCEPT !.components = Append(@, SparseSetNew),
                             !.component_len = @ + 1,
                             !.component_records[t] = components_num]
        found == SparseSetGet(w1.entity_signatures, entity.id)
    IN IF w1.panicked \/ found = None THEN [w |-> Panic(w), ret |-> None]
       ELSE LET entity_signature == found[1]
                component_id == w1.component_records[t]
                moved == entity_signature \cup {component_id}
            IN IF component_id \notin entity_signature /\ entity_signature \notin DOMAIN w1.groups
               THEN [w |-> Panic(w), ret |-> None]
               ELSE LET w2 == IF component_id \in entity_signature THEN w1
                              ELSE LET g1 == GroupsSet(w1.groups, entity_signature,
                                                 SparseSetRemove(w1.groups[entity_signature], entity.id))
                                   IN [w1 EXCEPT
                                         !.entity_signatures = SparseSetInsert(@, entity.id, moved),
                                         !.groups = GroupsSet(g1, moved,
                                                 SparseSetInsert(GroupsEntry(g1, moved), entity.id, entity))]
                        sparse_set == w2.components[component_id + 1]
                    IN [w |-> [w2 EXCEPT !.components[component_id + 1] =
                                            SparseSetInsert(sparse_set, entity.id, component)],
                        ret |-> SparseSetGet(sparse_set, entity.id)]

\* Components::remove_component: line 126 ORs the component bit into the entity
\* signature (bitor_assign), so the signature and the group stay as they were
ComponentsRemoveComponent(w, entity, t) ==
    LET found == SparseSetGet(w.entity_signatures, entity.id)
    IN IF w.component_records[t] = NONE \/ found = None THEN [w |-> w, ret |-> None]
       ELSE LET entity_signature == found[1]
                component_id == w.component_records[t]
                sparse_set == w.components[component_id + 1]
                ored == entity_signature \cup {component_id}
            IN IF component_id \notin entity_signature THEN [w |-> w, ret |-> None]
               ELSE IF entity_signature \notin DOMAIN w.groups
                       \/ ~SparseSetContains(sparse_set, entity.id)
               THEN [w |-> Panic(w), ret |-> None]
               ELSE LET g1 == GroupsSet(w.groups, entity_signature,
                                  SparseSetRemove(w.groups[entity_signature], entity.id))
                    IN [w |-> [w EXCEPT
                                 !.entity_signatures = SparseSetInsert(@, entity.id, ored),
                                 !.groups = GroupsSet(g1, ored,
                                         SparseSetInsert(GroupsEntry(g1, ored), entity.id, entity)),
                                 !.components[component_id + 1] = SparseSetRemove(sparse_set, entity.id)],
                        ret |-> SparseSetGet(sparse_set, entity.id)]

\* Components::insert_empty_entity
ComponentsInsertEmptyEntity(w, entity, signature) ==
    IF SparseSetContains(w.entity_signatures, entity.id) THEN Panic(w)
    ELSE [w EXCEPT !.entity_signatures = SparseSetInsert(@, entity.id, signature),
                   !.groups = GroupsSet(@, signature,
                           SparseSetInsert(GroupsEntry(@, signature), entity.id, entity))]

\* Components::set_component_unchecked: only the storage is written
ComponentsSetComponentUnchecked(w, entity, t, component) ==
    LET component_id == w.component_records[t]
    IN [w EXCEPT !.components[component_id + 1] = SparseSetInsert(@, entity.id, component)]

\* what Components::set_component_unchecked returns: the displaced value
ComponentsSetComponentUncheckedReturn(w, entity, t) ==
    SparseSetGet(w.components[w.component_records[t] + 1], entity.id)

\* the loop of Components::despawn over the set bits, lowest index first: the
\* hook stored at the index is called with the value stored at the index
RECURSIVE ComponentsDespawnLoop(_, _, _, _)
ComponentsDespawnLoop(w, entity, entity_signature_raw, index) ==
    IF entity_signature_raw = {} \/ w.panicked THEN w
    ELSE IF index \notin entity_signature_raw
    THEN ComponentsDespawnLoop(w, entity, entity_signature_raw, index + 1)
    ELSE IF index >= Len(w.components)
            \/ ~SparseSetContains(w.components[index + 1], entity.id)
            \/ index >= Len(w.component_on_remove)
    THEN Panic(w)
    ELSE LET ptr == SparseSetGet(w.components[index + 1], entity.id)[1]
             w1 == ComponentOnRemove(w, w.component_on_remove[index + 1], ptr)
         IN ComponentsDespawnLoop(
               [w1 EXCEPT !.components[index + 1] = SparseSetRemove(@, entity.id)],
               entity, entity_signature_raw \ {index}, index + 1)

\* a despawn that leaves the entity in its group
ComponentsDespawnKeepGroup(w, entity) ==
    LET found == SparseSetGet(w.entity_signatures, entity.id)
    IN IF found = None THEN w
       ELSE IF found[1] \notin DOMAIN w.groups THEN Panic(w)
       ELSE ComponentsDespawnLoop(
               [w EXCEPT !.entity_signatures = SparseSetRemove(@, entity.id)],
               entity, found[1], 0)

\* Components::despawn
ComponentsDespawn(w, entity) ==
    LET found == SparseSetGet(w.entity_signatures, entity.id)
    IN IF found = None THEN w
       ELSE IF found[1] \notin DOMAIN w.groups THEN Panic(w)
       ELSE ComponentsDespawnLoop(
               [w EXCEPT !.entity_signatures = SparseSetRemove(@, entity.id),
                         !.groups[found[1]] = SparseSetRemove(@, entity.id)],
               entity, found[1], 0)

(***************************************************************************)
(* world.rs: World mutators.  A bundle is a sequence of [type, value].     *)
(***************************************************************************)
RECURSIVE CommandsProcess(_, _, _)

\* World::process_command_buffer: swap the buffer out and replay it
WorldProcessCommandBuffer(w) ==
    IF w.panicked THEN w
    ELSE CommandsProcess(w.command_buffer, 0, [w EXCEPT !.command_buffer = << >>])

\* a liveness test that accepts every handle
EntitiesAlwaysAlive(w, entity) == TRUE

WorldIsAlive(w, entity) == EntitiesIsAlive(w, entity)

\* World::set_component: no-op on a dead entity; the displaced value goes to
\* its on_remove hook and is dropped
WorldSetComponent(w, entity, t, component) ==
    IF w.panicked \/ ~WorldIsAlive(w, entity) THEN w
    ELSE LET r == ComponentsSetComponent(ComponentOnAdd(w, t, component), entity, t, component)
         IN WorldProcessCommandBuffer(
                IF r.ret # None /\ ~r.w.panicked THEN ComponentOnRemove(r.w, t, r.ret[1]) ELSE r.w)

\* World::set_component_unchecked
WorldSetComponentUnchecked(w, entity, t, component) ==
    IF w.panicked THEN w
    ELSE LET w1 == ComponentOnAdd(w, t, component)
             prior == ComponentsSetComponentUncheckedReturn(w1, entity, t)
             w2 == ComponentsSetComponentUnchecked(w1, entity, t, component)
         IN WorldProcessCommandBuffer(
                IF prior # None THEN ComponentOnRemove(w2, t, prior[1]) ELSE w2)

\* World::remove_component
WorldRemoveComponent(w, entity, t) ==
    IF w.panicked \/ ~WorldIsAlive(w, entity) THEN w
    ELSE LET r == ComponentsRemoveComponent(w, entity, t)
         IN WorldProcessCommandBuffer(
                IF r.ret # None /\ ~r.w.panicked THEN ComponentOnRemove(r.w, t, r.ret[1]) ELSE r.w)

\* World::get_component
WorldGetComponent(w, entity, t) ==
    IF ~WorldIsAlive(w, entity) THEN None ELSE ComponentsGetComponent(w, entity, t)

\* World::despawn
WorldDespawn(w, entity) ==
    IF w.panicked THEN w
    ELSE WorldProcessCommandBuffer(
            IF WorldIsAlive(w, entity)
            THEN ComponentsDespawn(EntitiesDespawn(w, entity), entity)
            ELSE w)

\* World::add_child
WorldAddChild(w, parent, child) ==
    IF w.panicked \/ ~WorldIsAlive(w, parent) \/ ~WorldIsAlive(w, child) THEN w
    ELSE EntitiesAddChild(w, parent, child)

\* World::remove_child: only the parent has to be alive
WorldRemoveChild(w, parent, child) ==
    IF w.panicked \/ ~WorldIsAlive(w, parent) THEN w
    ELSE EntitiesRemoveChild(w, parent, child)

\* World::remove_children
WorldRemoveChildren(w, entity) ==
    IF w.panicked \/ ~WorldIsAlive(w, entity) THEN w
    ELSE EntitiesRemoveChildren(w, entity)

\* World::children
WorldChildren(w, entity) ==
    IF ~WorldIsAlive(w, entity) THEN << >> ELSE EntitiesChildren(w, entity)

\* a registration that hands out the id 0 to every new type
ResourcesRegisterZero(w, r) ==
    IF w.resource_ids[r] # NONE THEN w ELSE [w EXCEPT !.resource_ids[r] = 0]

\* Resources::register: the next id is the number of registered types
ResourcesRegister(w, r) ==
    IF w.resource_ids[r] # NONE THEN w
    ELSE [w EXCEPT !.resource_ids[r] =
                Cardinality({x \in DOMAIN w.resource_ids : w.resource_ids[x] # NONE})]

\* Resource::on_add and Resource::on_remove.  The type Spawner overrides both:
\* on_add is commands.insert_resource(Added(self.0)), on_remove is
\* commands.insert_resource(Removed(self.0)); every other type keeps the empty
\* default.  hooks is the history of the calls.
ResourceOnAdd(w, r, resource) ==
    IF r # "Spawner" THEN w
    ELSE [w EXCEPT !.command_buffer = CommandsInsertResource(@, "Added", resource),
                   !.hooks = Append(@, [hook |-> "on_add", value |-> resource])]

\* an on_remove that is never called
ResourceOnRemoveSkipped(w, r, resource) == w

ResourceOnRemove(w, r, resource) ==
    IF r # "Spawner" THEN w
    ELSE [w EXCEPT !.command_buffer = CommandsInsertResource(@, "Removed", resource),
                   !.hooks = Append(@, [hook |-> "on_remove", value |-> resource])]

\* what Resources::insert returns to World::insert_resource: the prior value
ResourcesInsertReturn(w, r) ==
    IF w.resource_ids[r] = NONE THEN None ELSE SparseSetGet(w.resources, w.resource_ids[r])

\* World::insert_resource: on_add of the new value, then the type is
\* registered and the value stored over a prior one, whose on_remove is
\* called; the commands of the hooks are replayed
WorldInsertResource(w, r, resource) ==
    IF w.panicked THEN w
    ELSE LET w1 == ResourcesRegister(ResourceOnAdd(w, r, resource), r)
             res == ResourcesInsertReturn(w, r)
             w2 == [w1 EXCEPT !.resources = SparseSetInsert(@, w1.resource_ids[r], resource)]
         IN WorldProcessCommandBuffer(
                IF res # None THEN ResourceOnRemove(w2, r, res[1]) ELSE w2)

\* Resources::get_or_insert_with: a new type gets the next id and the value;
\* a registered type keeps its value, or gets the value when it holds none
ResourcesGetOrInsertWith(w, r, resource) ==
    LET ids_len == Cardinality({x \in DOMAIN w.resource_ids : w.resource_ids[x] # NONE})
    IN IF w.resource_ids[r] = NONE
       THEN [w EXCEPT !.resource_ids[r] = ids_len,
                      !.resources = SparseSetInsert(@, ids_len, resource)]
       ELSE IF SparseSetContains(w.resources, w.resource_ids[r]) THEN w
       ELSE [w EXCEPT !.resources = SparseSetInsert(@, w.resource_ids[r], resource)]

\* World::get_resource_or_insert_with
WorldGetResourceOrInsertWith(w, r, resource) ==
    IF w.panicked THEN w
    ELSE WorldProcessCommandBuffer(ResourcesGetOrInsertWith(w, r, resource))

\* World::remove_resource
WorldRemoveResource(w, r) ==
    IF w.panicked \/ w.resource_ids[r] = NONE THEN w
    ELSE IF ~SparseSetContains(w.resources, w.resource_ids[r]) THEN w
    ELSE WorldProcessCommandBuffer(
            ResourceOnRemove([w EXCEPT !.resources = SparseSetRemove(@, w.resource_ids[r])],
                             r, SparseSetGet(w.resources, w.resource_ids[r])[1]))

\* World::get_resource
WorldGetResource(w, r) ==
    IF w.resource_ids[r] = NONE THEN None ELSE SparseSetGet(w.resources, w.resource_ids[r])

\* ComponentBundle: register every type of the bundle in tuple order
RECURSIVE BundleRegister(_, _)
BundleRegister(w, bundle) ==
    IF bundle = << >> \/ w.panicked THEN w
    ELSE BundleRegister(ComponentsRegisterComponent(w, Head(bundle).type), Tail(bundle))

\* ComponentBundle: the OR of the signatures of the bundle's types
BundleSignature(w, bundle) ==
    {w.component_records[bundle[i].type] : i \in 1 .. Len(bundle)}

\* ComponentBundle: store every component of the bundle in tuple order
RECURSIVE BundleSetUnchecked(_, _, _)
BundleSetUnchecked(w, entity, bundle) ==
    IF bundle = << >> \/ w.panicked THEN w
    ELSE BundleSetUnchecked(
            WorldSetComponentUnchecked(w, entity, Head(bundle).type, Head(bundle).value),
            entity, Tail(bundle))

\* a spawn_reserved that inserts the entity without the components of the bundle
WorldSpawnReservedEmpty(w, entity, bundle) ==
    IF w.panicked THEN w ELSE ComponentsInsertEmptyEntity(w, entity, {})

\* World::spawn_reserved: ComponentBundle::spawn for an id that is already chosen
WorldSpawnReserved(w, entity, bundle) ==
    IF w.panicked THEN w
    ELSE LET w1 == BundleRegister(w, bundle)
         IN IF w1.panicked THEN w1
            ELSE LET w2 == ComponentsInsertEmptyEntity(w1, entity, BundleSignature(w1, bundle))
                 IN BundleSetUnchecked(w2, entity, bundle)

\* World::spawn
WorldSpawn(w, bundle) ==
    LET r == EntitiesSpawn(w)
    IN [entity |-> r.entity, w |-> WorldSpawnReserved(r.w, r.entity, bundle)]

(***************************************************************************)
(* system/commands.rs: Commands.  size_of::<CommandMeta>() is one cell and *)
(* every component value is one cell of payload.                           *)
(***************************************************************************)
BundleTypes(bundle) == [i \in 1 .. Len(bundle) |-> bundle[i].type]
BundleData(bundle) == [i \in 1 .. Len(bundle) |-> DataCell(bundle[i].value)]

\* Commands::spawn: the entity is reserved when the command is enqueued
CommandsSpawn(w, queue, bundle) ==
    LET r == EntitiesSpawn(w)
    IN [entity |-> r.entity,
        w |-> r.w,
        queue |-> Append(queue, Cell("Spawn", r.entity, NoEntity, BundleTypes(bundle),
                                     Len(bundle), 0)) \o BundleData(bundle)]

\* a set_component written in front of what the buffer already holds
CommandsSetComponentFront(queue, entity, t, component) ==
    << Cell("SetComponent", entity, NoEntity, << t >>, 1, 0), DataCell(component) >>
        \o queue

CommandsSetComponent(queue, entity, t, component) ==
    Append(queue, Cell("SetComponent", entity, NoEntity, << t >>, 1, 0))
        \o << DataCell(component) >>

CommandsRemoveComponent(queue, entity, t) ==
    Append(queue, Cell("RemoveComponent", entity, NoEntity, << t >>, 0, 0))

CommandsAddChild(queue, parent, child) ==
    Append(queue, Cell("AddChild", parent, child, << >>, 0, 0))

CommandsRemoveResource(queue, r) ==
    Append(queue, Cell("RemoveResource", NoEntity, NoEntity, << r >>, 0, 0))

\* Commands::join
CommandsJoin(queue, buffer) == queue \o buffer

\* event.rs: EventQueue::new
EventQueueNew == [old |-> << >>, old_count |-> 0, new |-> << >>, new_count |-> 0, count |-> 0]

\* EventQueue::send
EventQueueSend(q, event) == [q EXCEPT !.new = Append(@, event), !.count = @ + 1]

\* Commands::run_schedule; a label is a unit struct, so there is no payload
CommandsRunSchedule(queue, label) ==
    Append(queue, Cell("RunSchedule", NoEntity, NoEntity, << label >>, 0, 0))

\* Commands::send_event; the events sent here are unit structs
CommandsSendEvent(queue, event) ==
    Append(queue, Cell("SendEvent", NoEntity, NoEntity, << event >>, 0, 0))

\* Commands::send_signal with target None
CommandsSendSignal(queue, event) ==
    Append(queue, Cell("SendSignal", NoEntity, NoEntity, << event >>, 0, 0))

\* what the closure of a system does with its Commands parameter: a script is
\* the sequence of the calls it makes
RECURSIVE RunScript(_, _)
RunScript(queue, script) ==
    IF script = << >> THEN queue
    ELSE LET call == Head(script)
         IN RunScript(
                CASE call.kind = "run_schedule" -> CommandsRunSchedule(queue, call.arg)
                  [] call.kind = "send_signal" -> CommandsSendSignal(queue, call.arg)
                  [] call.kind = "send_event" -> CommandsSendEvent(queue, call.arg)
                  [] call.kind = "insert_resource" -> CommandsInsertResource(queue, call.arg, 1)
                  [] OTHER -> queue,
                Tail(script))

\* what the closure of a system does with its ResMut<R> parameter:
\* "deref" reads r.0, "deref_mut" is r.0 = 2, "deref_mut_if" is
\* if r.0 == 1 { r.0 = 2 }; fetch aborts when R holds no value
ResMutCalls == {"deref", "deref_mut", "deref_mut_if"}

\* a deref_mut that leaves the flag alone
ResMutDerefMutSilent(was_modified) == was_modified

\* ResMut::deref_mut: the flag of the system's state is set
ResMutDerefMut(was_modified) == TRUE

RECURSIVE SystemExecute(_, _, _, _)
SystemExecute(w, label, i, script) ==
    IF script = << >> \/ w.panicked THEN w
    ELSE LET call == Head(script)
             r == WorldGetResource(w, "R")
             writes == call.kind = "deref_mut" \/ (call.kind = "deref_mut_if" /\ r = Some(1))
         IN SystemExecute(
                IF call.kind \notin ResMutCalls THEN w
                ELSE IF r = None THEN Panic(w)
                ELSE IF ~writes THEN w
                ELSE [w EXCEPT !.schedules[label][i].was_modified = ResMutDerefMut(@),
                               !.resources = SparseSetInsert(@, w.resource_ids["R"], 2),
                               !.derefs_mut = Append(@, [label |-> label, system |-> i])],
                label, i, Tail(script))

\* Schedule::execute, first part: the systems are executed, bucket by bucket
RECURSIVE ScheduleExecuteSystems(_, _, _)
ScheduleExecuteSystems(w, label, i) ==
    IF i > Len(w.schedules[label]) \/ w.panicked THEN w
    ELSE ScheduleExecuteSystems(
            SystemExecute(w, label, i, w.schedules[label][i].script), label, i + 1)

\* an after that enqueues for a set flag and leaves the flag set
ResMutAfterKeep(queue, was_modified) ==
    [queue |-> IF was_modified
               THEN CommandsSendSignal(CommandsSendEvent(queue, "Changed<R>"), "Changed<R>")
               ELSE queue,
     was_modified |-> was_modified]

\* SystemParam::after of ResMut<R>: a set flag enqueues the Changed<R> event and
\* signal and is reset
ResMutAfter(queue, was_modified) ==
    IF was_modified
    THEN [queue |-> CommandsSendSignal(CommandsSendEvent(queue, "Changed<R>"), "Changed<R>"),
          was_modified |-> FALSE]
    ELSE [queue |-> queue, was_modified |-> was_modified]

\* Schedule::execute, second part: System::after of every system, in system
\* order, on the World's command buffer: Commands::after joins the queue the
\* closure has filled, ResMut::after looks at the flag
RECURSIVE ScheduleAfterSystems(_, _, _)
ScheduleAfterSystems(w, label, i) ==
    IF i > Len(w.schedules[label]) \/ w.panicked THEN w
    ELSE LET system == w.schedules[label][i]
             joined == CommandsJoin(w.command_buffer, RunScript(<< >>, system.script))
             after == ResMutAfter(joined, system.was_modified)
         IN ScheduleAfterSystems(
                [w EXCEPT !.command_buffer = after.queue,
                          !.schedules[label][i].was_modified = after.was_modified],
                label, i + 1)

\* Schedule::execute
ScheduleExecute(w, label) ==
    ScheduleAfterSystems(ScheduleExecuteSystems(w, label, 1), label, 1)

\* Schedule::execute alone leaves the commands of the systems in the buffer
ScheduleExecuteOnly(w, label) ==
    ScheduleExecute([w EXCEPT !.ran = Append(@, label)], label)

\* Schedule::run: execute, then World::process_command_buffer
ScheduleRun(w, label) ==
    WorldProcessCommandBuffer(
        ScheduleExecute([w EXCEPT !.ran = Append(@, label)], label))

\* World::run_schedule: nothing happens for a label without schedule
WorldRunSchedule(w, label) ==
    IF w.panicked \/ label \notin DOMAIN w.schedules THEN w ELSE ScheduleRun(w, label)

\* World::send_event: the EventQueue<E> is a resource, created on first use
WorldSendEvent(w, event) ==
    IF w.panicked THEN w
    ELSE LET w1 == ResourcesGetOrInsertWith(w, EventQueueOf(event), EventQueueNew)
             id == w1.resource_ids[EventQueueOf(event)]
         IN [w1 EXCEPT !.resources =
                SparseSetInsert(@, id, EventQueueSend(SparseSetGet(w1.resources, id)[1], event))]

\* a send_signal that hands the input to every observer, whatever its event
ObserversSendSignalAll(o, queried_systems, signal_index, i) ==
    [o EXCEPT !.is_system_queried = {k \in 1 .. Len(o.systems) : TRUE},
              !.queried_buckets = [b \in 1 .. Len(o.parallel_exeuction_buckets) |-> b],
              !.system_inputs = [k \in 1 .. Len(o.systems) |-> Some(signal_index)]]

\* a send_signal that overwrites the input an observer still holds
ObserversSendSignalOverwrite(o, queried_systems, signal_index, i) ==
    LET targets == {queried_systems[k] : k \in 1 .. Len(queried_systems)}
    IN [o EXCEPT !.is_system_queried = @ \cup targets,
                 !.queried_buckets =
                     @ \o SelectSeq([b \in 1 .. Len(o.parallel_exeuction_buckets) |-> b],
                                    LAMBDA b : /\ \A k \in 1 .. Len(o.queried_buckets) :
                                                     o.queried_buckets[k] # b
                                               /\ \E s \in targets : o.systems[s].bucket = b),
                 !.system_inputs = [s \in 1 .. Len(o.systems) |->
                                       IF s \in targets THEN Some(signal_index) ELSE @[s]]]

\* Observers::send_signal: every observer of the event type gets the input, or
\* the input is queued when the observer still holds one
RECURSIVE ObserversSendSignal(_, _, _, _)
ObserversSendSignal(o, queried_systems, signal_index, i) ==
    IF i > Len(queried_systems) THEN o
    ELSE LET system_index == queried_systems[i]
             bucket == o.systems[system_index].bucket
         IN ObserversSendSignal(
                IF o.system_inputs[system_index] # None
                THEN [o EXCEPT !.queued_system_inputs =
                          Append(@, [system_index |-> system_index, input |-> signal_index])]
                ELSE [o EXCEPT !.is_system_queried = @ \cup {system_index},
                               !.queried_buckets =
                                   IF \E k \in 1 .. Len(@) : @[k] = bucket THEN @
                                   ELSE Append(@, bucket),
                               !.system_inputs[system_index] = Some(signal_index)],
                queried_systems, signal_index, i + 1)

\* the queried systems in the order execute_queried_systems visits them: bucket
\* by bucket, inside a bucket in the order of its systems
RECURSIVE QueriedOrder(_, _)
QueriedOrder(o, b) ==
    IF b > Len(o.queried_buckets) THEN << >>
    ELSE SelectSeq(o.parallel_exeuction_buckets[o.queried_buckets[b]].systems,
                   LAMBDA system_index : system_index \in o.is_system_queried)
         \o QueriedOrder(o, b + 1)

\* first loop of execute_queried_systems: take the input, execute the system
RECURSIVE ExecuteSystems(_, _)
ExecuteSystems(w, order) ==
    IF order = << >> \/ w.panicked THEN w
    ELSE LET system_index == Head(order)
             input == w.observers.system_inputs[system_index]
         IN IF input = None THEN Panic(w)
            ELSE ExecuteSystems(
                    [w EXCEPT !.observers.system_inputs[system_index] = None,
                              !.observers.executed =
                                  Append(@, [system_index |-> system_index, input |-> input[1]])],
                    Tail(order))

\* second loop: System::after hands the system's commands to the World
RECURSIVE AfterSystems(_, _)
AfterSystems(w, order) ==
    IF order = << >> \/ w.panicked THEN w
    ELSE AfterSystems(
            [w EXCEPT !.command_buffer =
                CommandsJoin(@, RunScript(<< >>, w.observers.systems[Head(order)].script))],
            Tail(order))

\* third part: the inputs that were queued are handed out, one per system
RECURSIVE RequeueInputs(_, _)
RequeueInputs(o, n) ==
    IF n = 0 THEN o
    ELSE LET front == Head(o.queued_system_inputs)
             bucket == o.systems[front.system_index].bucket
             o1 == [o EXCEPT !.queued_system_inputs = Tail(@),
                             !.is_system_queried = @ \cup {front.system_index}]
             o2 == IF o1.system_inputs[front.system_index] # None
                   THEN [o1 EXCEPT !.queued_system_inputs = Append(@, front)]
                   ELSE [o1 EXCEPT !.system_inputs[front.system_index] = Some(front.input)]
         IN RequeueInputs(
                [o2 EXCEPT !.queried_buckets =
                    IF \E k \in 1 .. Len(@) : @[k] = bucket THEN @ ELSE Append(@, bucket)],
                n - 1)

\* Observers::execute_queried_systems
RECURSIVE ExecuteQueriedSystems(_)
ExecuteQueriedSystems(w) ==
    IF w.panicked THEN w
    ELSE LET order == QueriedOrder(w.observers, 1)
             w1 == AfterSystems(ExecuteSystems(w, order), order)
             w2 == [w1 EXCEPT !.observers.is_system_queried = {},
                              !.observers.queried_buckets = << >>]
         IN IF w1.panicked THEN w1
            ELSE IF w2.observers.queued_system_inputs = << >> THEN w2
            ELSE ExecuteQueriedSystems(
                    [w2 EXCEPT !.observers = RequeueInputs(@, Len(@.queued_system_inputs))])

\* the dispatch of one signal: it gets the next signal index, the observers of
\* its type are queried and executed, and the command buffer is drained once
\* after the dispatch
ObserversDispatch(w, event) ==
    LET signal_index == Len(w.observers.sent)
        o == [w.observers EXCEPT !.sent = Append(@, event)]
    IN WorldProcessCommandBuffer(
           ExecuteQueriedSystems(
               [w EXCEPT !.observers =
                   ObserversSendSignal(o, o.event_to_systems[event], signal_index, 1)]))

\* World::send_signal_from_system
WorldSendSignalFromSystem(w, event) ==
    IF w.panicked THEN w ELSE ObserversDispatch(w, event)

\* the observers whose SystemId is dead leave the routing table
ObserversRemoveDeadObservers(o) ==
    [o EXCEPT !.event_to_systems =
        [e \in DOMAIN @ |-> SelectSeq(@[e], LAMBDA system_index : o.systems[system_index].alive)]]

\* World::send_signal: remove_dead_observers, then the dispatch
WorldSendSignal(w, event) ==
    IF w.panicked THEN w
    ELSE ObserversDispatch([w EXCEPT !.observers = ObserversRemoveDeadObservers(@)], event)

\* the closure f of a Spawn header reads the bundle from the payload
ReadBundle(f, queue, cursor) ==
    [i \in 1 .. Len(f) |-> [type |-> f[i], value |-> queue[cursor + i].value]]

\* Commands::process from a cursor: read the header, advance, dispatch, skip
\* the payload
CommandsProcess(queue, cursor, w) ==
    IF w.panicked \/ cursor >= Len(queue) THEN w
    ELSE LET command_meta == queue[cursor + 1]
             c == cursor + 1
         IN CASE command_meta.kind = "Spawn" ->
                   CommandsProcess(queue, c + command_meta.data_size,
                       WorldSpawnReserved(w, command_meta.entity,
                                          ReadBundle(command_meta.f, queue, c)))
              [] command_meta.kind = "Despawn" ->
                   CommandsProcess(queue, c, WorldDespawn(w, command_meta.entity))
              [] command_meta.kind = "SetComponent" ->
                   CommandsProcess(queue, c + command_meta.data_size,
                       WorldSetComponent(w, command_meta.entity, command_meta.f[1],
                                         queue[c + 1].value))
              [] command_meta.kind = "RemoveComponent" ->
                   CommandsProcess(queue, c,
                       WorldRemoveComponent(w, command_meta.entity, command_meta.f[1]))
              [] command_meta.kind = "AddChild" ->
                   CommandsProcess(queue, c,
                       WorldAddChild(w, command_meta.entity, command_meta.child))
              [] command_meta.kind = "InsertResource" ->
                   CommandsProcess(queue, c + command_meta.data_size,
                       WorldInsertResource(w, command_meta.f[1], queue[c + 1].value))
              [] command_meta.kind = "RemoveResource" ->
                   CommandsProcess(queue, c, WorldRemoveResource(w, command_meta.f[1]))
              [] command_meta.kind = "RunSchedule" ->
                   CommandsProcess(queue, c + command_meta.data_size,
                       WorldRunSchedule(w, command_meta.f[1]))
              [] command_meta.kind = "SendSignal" ->
                   CommandsProcess(queue, c + command_meta.data_size,
                       WorldSendSignalFromSystem(w, command_meta.f[1]))
              [] command_meta.kind = "SendEvent" ->
                   CommandsProcess(queue, c + command_meta.data_size,
                       WorldSendEvent(w, command_meta.f[1]))
              [] OTHER -> CommandsProcess(queue, c, w)

\* the entities held by the groups of the component registry
MaterializedEntities(w) ==
    UNION {{w.groups[s].dense[i] : i \in 1 .. Len(w.groups[s].dense)} : s \in DOMAIN w.groups}

\* the component types whose bit is set in a signature
TypesOf(w, signature) ==
    {t \in CompTypes : w.component_records[t] # NONE /\ w.component_records[t] \in signature}

\* what the World holds for one entity handle: liveness, the entry of the
\* component registry (signature, group member), the stored values, the children
EntityView(w, entity) ==
    LET found == IF entity = NoEntity THEN None
                 ELSE SparseSetGet(w.entity_signatures, entity.id)
    IN IF entity = NoEntity
       THEN [alive |-> FALSE, materialized |-> FALSE, signature |-> {}, member |-> None,
             values |-> [t \in CompTypes |-> None], children |-> << >>]
       ELSE
       [alive |-> WorldIsAlive(w, entity),
        materialized |-> found # None,
        signature |-> IF found = None THEN {} ELSE TypesOf(w, found[1]),
        member |-> IF found = None \/ found[1] \notin DOMAIN w.groups THEN None
                   ELSE SparseSetGet(w.groups[found[1]], entity.id),
        values |-> [t \in CompTypes |-> ComponentsGetComponent(w, entity, t)],
        children |-> EntitiesChildren(w, entity)]

\* Commands::process, command by command: for the header at every position
\* the World before it is dispatched and the World after it
ReplayTrace(queue, w) ==
    [k \in {i \in 1 .. Len(queue) : queue[i].kind # "data"} |->
        LET w_before == CommandsProcess(SubSeq(queue, 1, k - 1), 0, w)
            w_after == CommandsProcess(SubSeq(queue, 1, k + queue[k].data_size), 0, w)
        IN [pos |-> k, kind |-> queue[k].kind, entity |-> queue[k].entity,
            child |-> queue[k].child,
            bundle |-> IF queue[k].data_size = 0 THEN << >>
                       ELSE ReadBundle(queue[k].f, queue, k),
            panicked_before |-> w_before.panicked,
            panicked |-> w_after.panicked,
            before |-> EntityView(w_before, queue[k].entity),
            after |-> EntityView(w_after, queue[k].entity),
            child_alive |-> EntityView(w_before, queue[k].child).alive]]

(***************************************************************************)
(* query.rs: Query.  The filter terms With and Without are tuples of       *)
(* component types.                                                        *)
(***************************************************************************)
\* Query::new registers every component type it names
RECURSIVE QueryRegister(_, _)
QueryRegister(w, types) ==
    IF types = << >> \/ w.panicked THEN w
    ELSE QueryRegister(ComponentsRegisterComponent(w, Head(types)), Tail(types))

\* Query::new collects the type ids in a set and ORs their signatures
QuerySignature(w, types) == {w.component_records[types[i]] : i \in 1 .. Len(types)}

\* a filter that lets every group through
MatchesAny(signature, required) == TRUE

\* Query::iter keeps a group when signature & required == required
MatchesRequired(signature, required) == required \subseteq signature

\* a group is left out when signature & excluded is not zero
MatchesExcluded(signature, excluded) == signature \cap excluded = {}

\* a query with the filter (With<with>, Without<without>)
QueryFilteredNew(w, with, without) ==
    LET w1 == QueryRegister(QueryRegister(w, with), without)
    IN [w |-> w1, required |-> QuerySignature(w1, with),
        excluded |-> QuerySignature(w1, without)]

\* Query::iter: the entities of every group that passes the filter, group by
\* group in the map's order, each group in dense order
RECURSIVE QueryIterGroups(_, _, _, _)
QueryIterGroups(w, signatures, required, excluded) ==
    IF signatures = {} THEN << >>
    ELSE LET s == CHOOSE x \in signatures : TRUE
         IN (IF MatchesRequired(s, required) /\ MatchesExcluded(s, excluded)
             THEN w.groups[s].dense ELSE << >>)
            \o QueryIterGroups(w, signatures \ {s}, required, excluded)

QueryIter(w, required, excluded) == QueryIterGroups(w, DOMAIN w.groups, required, excluded)

(***************************************************************************)
(* access.rs: Access.  A Bitmap is the set of its set bits.                *)
(***************************************************************************)
AccessDefault == [immutable |-> {}, mutable |-> {}, mutable_count |-> 0]

AccessIsCompatible(a, other) ==
    /\ a.immutable \cap other.mutable = {}
    /\ a.mutable \cap other.immutable = {}
    /\ a.mutable \cap other.mutable = {}

AccessJoin(a, other) ==
    [immutable |-> a.immutable \cup other.immutable,
     mutable |-> a.mutable \cup other.mutable,
     mutable_count |-> a.mutable_count + other.mutable_count]

(***************************************************************************)
(* system/mod.rs: FunctionSystem.  A system is the sequence of its params; *)
(* a param is Query<&C>, Query<&mut C>, Res<R> or ResMut<R>.               *)
(***************************************************************************)
Param(kind, type) == [kind |-> kind, type |-> type]

SystemNew(params) ==
    [params |-> params, component_access |-> None, resource_access |-> None,
     is_init |-> FALSE, alive |-> TRUE]

\* SystemParam::init_state: a query registers its component types; Res and
\* ResMut look the resource id up with World::resource_id, which panics for a
\* type that was never registered
ParamInitState(w, param) ==
    IF param.kind \in {"Ref", "Mut"} THEN ComponentsRegisterComponent(w, param.type)
    ELSE IF w.resource_ids[param.type] = NONE THEN Panic(w)
    ELSE w

RECURSIVE ParamsInitState(_, _)
ParamsInitState(w, params) ==
    IF params = << >> \/ w.panicked THEN w
    ELSE ParamsInitState(ParamInitState(w, Head(params)), Tail(params))

\* QueryItem::join_component_access for &C and &mut C
ParamJoinComponentAccess(w, access, param) ==
    IF param.kind = "Ref"
    THEN [access EXCEPT !.immutable = @ \cup {w.component_records[param.type]}]
    ELSE IF param.kind = "Mut"
    THEN [access EXCEPT !.mutable = @ \cup {w.component_records[param.type]},
                        !.mutable_count = @ + 1]
    ELSE access

\* SystemParam::join_resource_access for Res<R> and ResMut<R>
ParamJoinResourceAccess(w, access, param) ==
    IF param.kind = "Res"
    THEN [access EXCEPT !.immutable = @ \cup {w.resource_ids[param.type]}]
    ELSE IF param.kind = "ResMut"
    THEN [access EXCEPT !.mutable = @ \cup {w.resource_ids[param.type]},
                        !.mutable_count = @ + 1]
    ELSE access

RECURSIVE JoinComponentAccess(_, _, _)
JoinComponentAccess(w, access, params) ==
    IF params = << >> THEN access
    ELSE JoinComponentAccess(w, ParamJoinComponentAccess(w, access, Head(params)), Tail(params))

RECURSIVE JoinResourceAccess(_, _, _)
JoinResourceAccess(w, access, params) ==
    IF params = << >> THEN access
    ELSE JoinResourceAccess(w, ParamJoinResourceAccess(w, access, Head(params)), Tail(params))

\* System::component_access
SystemComponentAccess(system) == system.component_access[1]

\* System::resource_access: lines 93-96 return the component_access field
SystemResourceAccess(system) == system.component_access[1]

\* FunctionSystem::validate, through the two getters
SystemValidate(system) ==
    LET component_access == SystemComponentAccess(system)
        resource_access == SystemResourceAccess(system)
    IN /\ component_access.mutable_count = Cardinality(component_access.mutable)
       /\ component_access.immutable \cap component_access.mutable = {}
       /\ resource_access.mutable_count = Cardinality(resource_access.mutable)
       /\ resource_access.immutable \cap resource_access.mutable = {}

\* System::init: state, the two access sets, validation
SystemInit(w, system) ==
    LET w1 == ParamsInitState(w, system.params)
    IN IF w1.panicked THEN [w |-> Panic(w), system |-> system]
       ELSE
    LET inited == [system EXCEPT
                     !.component_access = Some(JoinComponentAccess(w1, AccessDefault, system.params)),
                     !.resource_access = Some(JoinResourceAccess(w1, AccessDefault, system.params)),
                     !.is_init = TRUE]
    IN IF SystemValidate(inited) THEN [w |-> w1, system |-> inited]
       ELSE [w |-> Panic(w), system |-> system]

(***************************************************************************)
(* schedule.rs: Schedule and ParallelBucket.  Systems are named by their   *)
(* index in the table of created systems.                                  *)
(***************************************************************************)
PARALLEL_EXECUTION_THRESHOLD == 4

ScheduleNew == [system_records |-> << >>, parallel_execution_queue |-> << >>,
                init_queue |-> << >>]

ParallelBucketDefault ==
    [joined_component_access |-> AccessDefault, joined_resource_access |-> AccessDefault,
     systems |-> << >>, should_run_paralell |-> FALSE]

\* ParallelBucket::is_system_compatible
BucketIsSystemCompatible(bucket, system) ==
    /\ AccessIsCompatible(bucket.joined_component_access, SystemComponentAccess(system))
    /\ AccessIsCompatible(bucket.joined_resource_access, SystemResourceAccess(system))

\* ParallelBucket::add_system
BucketAddSystem(bucket, idx, system) ==
    [joined_component_access |-> AccessJoin(bucket.joined_component_access,
                                            SystemComponentAccess(system)),
     joined_resource_access |-> AccessJoin(bucket.joined_resource_access,
                                           SystemResourceAccess(system)),
     systems |-> Append(bucket.systems, idx),
     should_run_paralell |-> (bucket.should_run_paralell
                              \/ Len(bucket.systems) + 1 >= PARALLEL_EXECUTION_THRESHOLD)]

\* Schedule::add_system
ScheduleAddSystem(sched, idx) == [sched EXCEPT !.init_queue = Append(@, idx)]

\* Schedule::init_system: the first compatible bucket, else a new bucket
ScheduleInitSystem(sched, table, w, idx) ==
    LET r == SystemInit(w, table[idx])
    IN IF r.w.panicked THEN [sched |-> sched, table |-> table, w |-> r.w]
       ELSE LET queue == sched.parallel_execution_queue
                fits == {b \in 1 .. Len(queue) : BucketIsSystemCompatible(queue[b], r.system)}
                b == IF fits = {} THEN Len(queue) + 1
                     ELSE CHOOSE x \in fits : \A y \in fits : x <= y
                bucket == IF fits = {} THEN ParallelBucketDefault ELSE queue[b]
                added == BucketAddSystem(bucket, idx, r.system)
            IN [sched |-> [sched EXCEPT
                             !.parallel_execution_queue =
                                 IF fits = {} THEN Append(queue, added)
                                 ELSE [queue EXCEPT ![b] = added],
                             !.system_records =
                                 Append(@, [system |-> idx, bucket_index |-> b - 1])],
                table |-> [table EXCEPT ![idx] = r.system],
                w |-> r.w]

\* a loop that stops after the first pop
ScheduleInitLast(sched, table, w) ==
    IF sched.init_queue = << >> \/ w.panicked
    THEN [sched |-> sched, table |-> table, w |-> w]
    ELSE ScheduleInitSystem([sched EXCEPT !.init_queue = PopSeq(@)], table, w,
                            sched.init_queue[Len(sched.init_queue)])

\* the loop of Schedule::run over init_queue.pop()
RECURSIVE ScheduleInitAll(_, _, _)
ScheduleInitAll(sched, table, w) ==
    IF sched.init_queue = << >> \/ w.panicked
    THEN [sched |-> sched, table |-> table, w |-> w]
    ELSE LET idx == sched.init_queue[Len(sched.init_queue)]
             r == ScheduleInitSystem([sched EXCEPT !.init_queue = PopSeq(@)], table, w, idx)
         IN ScheduleInitAll(r.sched, r.table, r.w)

\* the systems of the buckets in the order in which Schedule::execute starts
\* them in a sequential run
RECURSIVE ExecutionOrder(_, _)
ExecutionOrder(queue, b) ==
    IF b > Len(queue) THEN << >> ELSE queue[b].systems \o ExecutionOrder(queue, b + 1)

\* Option::unwrap_or
UnwrapOr(option, default) == IF option = None THEN default ELSE option[1]

\* the first two lines of Schedule::run: the WorldId the schedule is bound to
\* and the assertion on it
ScheduleRunAccepts(linked_world, id) == id = UnwrapOr(linked_world, id)

\* Vec::swap_remove
SwapRemove(seq, position) == PopSeq([seq EXCEPT ![position] = seq[Len(seq)]])

RECURSIVE BucketRejoin(_, _, _)
BucketRejoin(bucket, table, remaining) ==
    IF remaining = << >> THEN bucket
    ELSE BucketRejoin(
            [bucket EXCEPT
               !.joined_component_access = AccessJoin(@, SystemComponentAccess(table[Head(remaining)])),
               !.joined_resource_access = AccessJoin(@, SystemResourceAccess(table[Head(remaining)]))],
            table, Tail(remaining))

\* a removal that drops the record and leaves the bucket as it is
ScheduleRemoveRecordOnly(sched, table, index) ==
    [sched EXCEPT !.system_records = SwapRemove(@, index)]

\* Schedule::remove_system_at: swap_remove from the bucket, rebuild its joined
\* access, swap_remove the record
ScheduleRemoveSystemAt(sched, table, index) ==
    LET record == sched.system_records[index]
        b == record.bucket_index + 1
        bucket == sched.parallel_execution_queue[b]
        position == CHOOSE p \in 1 .. Len(bucket.systems) : bucket.systems[p] = record.system
        kept == SwapRemove(bucket.systems, position)
        cleared == [bucket EXCEPT !.systems = kept,
                                  !.joined_component_access = AccessDefault,
                                  !.joined_resource_access = AccessDefault]
    IN [sched EXCEPT !.parallel_execution_queue[b] = BucketRejoin(cleared, table, kept),
                     !.system_records = SwapRemove(@, index)]

\* the pruning loop at the end of Schedule::execute
RECURSIVE SchedulePrune(_, _, _)
SchedulePrune(sched, table, i) ==
    IF i > Len(sched.system_records) THEN sched
    ELSE IF ~table[sched.system_records[i].system].alive
    THEN SchedulePrune(ScheduleRemoveSystemAt(sched, table, i), table, i)
    ELSE SchedulePrune(sched, table, i + 1)

(***************************************************************************)
(* observer.rs: Observers, and the World of a program that holds schedules *)
(* and observers.  An observer is its event type, its resource access and  *)
(* the script of its closure.                                              *)
(***************************************************************************)
ObserversDefault ==
    [event_to_systems |-> [e \in EventTypes |-> << >>],
     systems |-> << >>,
     parallel_exeuction_buckets |-> << >>,
     is_system_queried |-> {},
     queried_buckets |-> << >>,
     system_inputs |-> << >>,
     queued_system_inputs |-> << >>,
     executed |-> << >>,    \* history: every execution, with the signal index
     sent |-> << >>]        \* history: every signal sent, by event type

\* Observers::get_compatible_bucket_index: the first bucket whose joined access
\* is compatible takes the system, else a new bucket
RECURSIVE GetCompatibleBucketIndex(_, _, _, _)
GetCompatibleBucketIndex(o, system, system_index, i) ==
    IF i > Len(o.parallel_exeuction_buckets)
    THEN [o |-> [o EXCEPT !.parallel_exeuction_buckets =
                    Append(@, [component_access |-> AccessDefault,
                               resource_access |-> system.resource_access,
                               systems |-> << system_index >>])],
          bucket |-> Len(o.parallel_exeuction_buckets) + 1]
    ELSE LET bucket == o.parallel_exeuction_buckets[i]
         IN IF ~AccessIsCompatible(system.resource_access, bucket.resource_access)
            THEN GetCompatibleBucketIndex(o, system, system_index, i + 1)
            ELSE [o |-> [o EXCEPT !.parallel_exeuction_buckets[i] =
                            [component_access |-> bucket.component_access,
                             resource_access |-> AccessJoin(bucket.resource_access,
                                                            system.resource_access),
                             systems |-> Append(bucket.systems, system_index)]],
                  bucket |-> i]

\* Observers::add_boxed_observer; positions count from 1 here
ObserversAddBoxedObserver(o, system) ==
    LET system_index == Len(o.systems) + 1
        o1 == [o EXCEPT !.event_to_systems[system.event] = Append(@, system_index),
                        !.system_inputs = Append(@, None)]
        r == GetCompatibleBucketIndex(o1, system, system_index, 1)
    IN [r.o EXCEPT !.systems = Append(@, [event |-> system.event,
                                          script |-> system.script,
                                          bucket |-> r.bucket,
                                          alive |-> TRUE])]

\* World::add_observer
WorldAddObserver(w, system) ==
    IF w.panicked THEN w ELSE [w EXCEPT !.observers = ObserversAddBoxedObserver(@, system)]

\* World::add_system: schedules.get_or_default(label), then add_boxed_system
WorldAddSystem(w, label, script) ==
    IF w.panicked THEN w
    ELSE [w EXCEPT !.schedules =
            [l \in (DOMAIN @) \cup {label} |->
                IF l \in DOMAIN @
                THEN (IF l = label
                      THEN Append(@[l], [script |-> script, was_modified |-> FALSE])
                      ELSE @[l])
                ELSE << [script |-> script, was_modified |-> FALSE] >>]]

\* the resource types of that program
AppResTypes ==
    {"R"} \cup {Success[k] : k \in Labels} \cup {EventQueueOf("Changed<R>")}

\* World::default
AppWorldNew ==
    [schedules |-> [l \in {} |-> << >>],
     ran |-> << >>,         \* history: the label of every Schedule::run
     derefs_mut |-> << >>,  \* history: the system of every ResMut::deref_mut
     observers |-> ObserversDefault]
    @@ [WorldNew EXCEPT !.resource_ids = [r \in AppResTypes |-> NONE]]

(***************************************************************************)
(* event.rs: EventQueue, EventReader and EventIterator                     *)
(***************************************************************************)
\* an update that swaps the buffers and does not clear the new one
EventQueueUpdateKeep(q) ==
    [q EXCEPT !.old = q.new, !.new = q.old,
              !.old_count = q.new_count, !.new_count = q.new_count + Len(q.new)]

\* EventQueue::update: swap, clear new, move the counters
EventQueueUpdate(q) ==
    [q EXCEPT !.old = q.new, !.new = << >>,
              !.old_count = q.new_count, !.new_count = q.new_count + Len(q.new)]

\* usize::saturating_sub
SaturatingSub(a, b) == IF a >= b THEN a - b ELSE 0

\* EventIterator::new: the cursor jumps over what is lost, the iterator
\* chains the rest of old with the rest of new
EventIteratorNew(q, last_count) ==
    LET last == Max(last_count, q.old_count)
        queue_old_sliced_index == Min(last - q.old_count, Len(q.old))
        queue_new_sliced_index == Min(SaturatingSub(last, q.new_count), Len(q.new))
    IN [last_count |-> last,
        iter |-> SubSeq(q.old, queue_old_sliced_index + 1, Len(q.old))
                 \o SubSeq(q.new, queue_new_sliced_index + 1, Len(q.new))]

\* a cursor that stays where it is while items are taken
EventIteratorStay(last_count, n) == last_count

\* EventIterator::next taken n times: every yielded item moves the cursor by one
EventIteratorAdvance(last_count, n) == last_count + n

\* EventReader::read followed by n calls of next
EventReaderRead(q, last_count, n) ==
    LET it == EventIteratorNew(q, last_count)
    IN [last_count |-> EventIteratorAdvance(it.last_count, n),
        yielded |-> SubSeq(it.iter, 1, n)]

(***************************************************************************)
(* State                                                                   *)
(***************************************************************************)
VARIABLES
    world,      \* the World
    commands,   \* the command queue of the running system, not yet joined
    issued,     \* history: every Entity returned by World::spawn or Commands::spawn
    despawned,  \* history: every Entity that despawn has been called on
    reissued,   \* history: a spawn returned an Entity that was despawned before
    last,       \* history: the last direct World call and what it returned
    prev,       \* history: the set_component call right before the last call
    direct,     \* the World obtained by calling the World mutators directly, in
                \* the order in which the pending commands were enqueued
    hmap,       \* the Entity that the direct spawn returned, for every reserved one
    rep,        \* history of the command list that is pending or was replayed last
    nops,       \* calls made so far
    table,      \* every system created so far, with its SystemId flag
    schedule,   \* the Schedule
    exec,       \* where Schedule::run is: idle, or executing a bucket; runs so far
    task,       \* per system: idle, running or done in the current run
    queue,      \* the EventQueue<E>; an event carries the number of its send
    last_count, \* the cursor of the EventReader
    readLog,    \* history: every event the reader was given, in order
    evh,        \* history of the queue: updates since a send, a read, a full read
    call,       \* history: the last call of the hierarchy program, its arguments
                \* and the World it was made on
    reg,        \* history: the last call of the registry program, the id it
                \* returned and the World it was made on
    entities,   \* the World whose Entities the systems of a bucket reserve from
    scope,      \* the bucket that is executing: per system the position inside
                \* Entities::spawn, and the entities returned so far
    app,        \* the World of the programs that run schedules and send signals
    prog,       \* history of those programs: calls made, the last call and the
                \* World it was made on
    set_under_test, \* one SparseSet<T> or BlobSparseSet, and which of the two it is
    finite_map, \* history: the map from key to value that the calls on the set
                \* describe, the last call and what it returned
    supplied,   \* history: the bundle each entity was spawned with, kept for
                \* as long as no call has targeted that entity
    pending,    \* per system: the systems its closure has passed to
                \* Commands::add_system in the current run
    runs,       \* history: runs started; per system the run count when it was
                \* added, the call that added it, the run of its first
                \* execution and its executions in the current run
    worlds,     \* every World created so far; worlds[i] has WorldId i - 1
    link,       \* a Schedule that is run in those Worlds: its linked_world, its
                \* systems, and the history of its runs
    alloc       \* an entity allocator late in a long run: the Entities value,
                \* and as history the ids and versions issued so far, the
                \* handles the program still holds and the last call

historyVars == << commands, issued, despawned, reissued, last, prev, direct, hmap, rep, nops >>
worldVars == << world, historyVars >>
scheduleVars == << table, schedule, exec, task >>
eventVars == << queue, last_count, readLog, evh >>
hierarchyVars == << call >>
registryVars == << reg >>
reserveVars == << entities, scope >>
appVars == << app, prog >>
setVars == << set_under_test, finite_map >>
tripVars == << supplied >>
growVars == << pending, runs >>
linkVars == << worlds, link >>
allocVars == << alloc >>
restVars == << growVars, linkVars, allocVars >>

Bundles ==
    { << >> }
    \cup { << [type |-> t, value |-> 1] >> : t \in CompTypes }
    \cup { << [type |-> "A", value |-> 1], [type |-> "B", value |-> 1] >> }

NoCall == [op |-> "none", entity |-> NoEntity, type |-> "-", value |-> 0,
           ret |-> None, sig |-> None, alive |-> FALSE]

Call(op, entity, t, value, ret, sig, alive) ==
    [op |-> op, entity |-> entity, type |-> t, value |-> value,
     ret |-> ret, sig |-> sig, alive |-> alive]

NoRep == [replayed |-> FALSE, n |-> 0, sawSpawn |-> FALSE, sawDespawn |-> FALSE,
          spawnAfterDespawn |-> FALSE, spawnBeforeDespawn |-> FALSE, trace |-> << >>]

\* a panic ends the program: the World is kept as it was and marked
AfterCall(w, result) == IF result.panicked THEN Panic(w) ELSE result

InitHierarchy ==
    call = [op |-> "none", entity |-> NoEntity, child |-> NoEntity, world |-> WorldNew]

InitRegistry ==
    reg = [op |-> "none", type |-> "-", id |-> NONE, world |-> WorldNew]

\* every variable but the World and the history of the registry program
InitOthers ==
    /\ commands = << >> /\ issued = {} /\ despawned = {} /\ reissued = FALSE
    /\ last = NoCall /\ prev = NoCall /\ direct = WorldNew /\ hmap = << >>
    /\ rep = NoRep /\ nops = 0
Tasks == 1 .. MaxTasks

InitReserve ==
    /\ entities = WorldNew
    /\ scope = [phase |-> "idle", nops |-> 0, returned |-> << >>,
                task |-> [t \in Tasks |-> [pc |-> "ready", free_entity_index |-> 0]]]

InitApp ==
    /\ app = AppWorldNew
    /\ prog = [nops |-> 0, op |-> "none", arg |-> 0, world |-> AppWorldNew, due |-> 0, ret |-> None,
               handle |-> [open |-> FALSE, was_modified |-> FALSE, derefs_mut |-> 0]]

\* World::default for the program whose resource has hooks
HookResTypes == {"Spawner", "Added", "Removed"}

HookWorldNew ==
    [hooks |-> << >>] @@ [WorldNew EXCEPT !.resource_ids = [r \in HookResTypes |-> NONE]]

InitHooks ==
    /\ app = HookWorldNew
    /\ prog = [nops |-> 0, op |-> "none", arg |-> 0, world |-> HookWorldNew, due |-> 0, ret |-> None,
               handle |-> [open |-> FALSE, was_modified |-> FALSE, derefs_mut |-> 0]]

\* World::default for the program whose components have hooks
HookBundles ==
    { << >>,
      << [type |-> "Spawner", value |-> 1] >>,
      << [type |-> "Tracker", value |-> 2] >>,
      << [type |-> "Spawner", value |-> 1], [type |-> "Tracker", value |-> 2] >> }

ComponentHookWorldNew ==
    [HookWorldNew EXCEPT !.component_records = [t \in HookedCompTypes |-> NONE]]

NoHookArg == [entity |-> NoEntity, type |-> "-", value |-> 0, bundle |-> << >>]

InitComponentHooks ==
    /\ app = ComponentHookWorldNew
    /\ prog = [nops |-> 0, op |-> "none", arg |-> NoHookArg, world |-> ComponentHookWorldNew,
               ret |-> None, issued |-> {}]

NoSetCall == [op |-> "none", id |-> 0, value |-> 0, ret |-> None]

InitSet ==
    /\ set_under_test = [kind |-> "SparseSet", set |-> SparseSetNew]
    /\ finite_map = [map |-> [k \in Ids |-> None], before |-> [k \in Ids |-> None],
                     set_before |-> SparseSetNew, nops |-> 0, call |-> NoSetCall]

\* SparseSet::new or BlobSparseSet::new
InitSets ==
    /\ \E kind \in {"SparseSet", "BlobSparseSet"} : set_under_test = [kind |-> kind, set |-> SparseSetNew]
    /\ finite_map = [map |-> [k \in Ids |-> None], before |-> [k \in Ids |-> None],
                     set_before |-> SparseSetNew, nops |-> 0, call |-> NoSetCall]

InitTrip == supplied = << >>

InitGrow ==
    /\ pending = << >>
    /\ runs = [n |-> 0, added |-> << >>, via |-> << >>, first |-> << >>, count |-> << >>]

InitLink ==
    /\ worlds = << >>
    /\ link = [linked_world |-> None, sched |-> ScheduleNew, table |-> << >>,
               ran |-> << >>, panicked |-> FALSE, ops |-> 0]

\* Entities::default together with the command buffer its despawn writes to
EntitiesDefault ==
    [ free_entity_ids |-> << >>,
      entity_versions |-> << >>,
      claimed_free_entities |-> 0,
      highest_free_entity_id |-> 0,
      children |-> SparseSetNew,
      command_buffer |-> << >> ]

\* the allocator after k calls of Entities::spawn on a new allocator: every
\* call took the first branch of spawn and issued the next fresh id
AfterFreshSpawns(k) ==
    [ entities |-> [EntitiesDefault EXCEPT !.highest_free_entity_id = k],
      fresh |-> k,
      top |-> [id \in TrackedIds |-> IF id < k THEN 0 ELSE NONE],
      held |-> IF k > 0 THEN {EntityNew(0, 0)} ELSE {},
      last |-> [op |-> "none", entity |-> NoEntity, before |-> << >>],
      panicked |-> FALSE,
      ops |-> 0 ]

\* the allocator after one spawn followed by c rounds of despawning the entity
\* of id 0 and spawning again: each despawn pushes id 0 and adds one to its
\* version, each spawn claims the slot and returns id 0 with that version
AfterCycles(c) ==
    [ entities |-> [EntitiesDefault EXCEPT !.free_entity_ids = << 0 >>,
                                           !.entity_versions = << c >>,
                                           !.claimed_free_entities = 1,
                                           !.highest_free_entity_id = 1],
      fresh |-> 1,
      top |-> [id \in TrackedIds |-> IF id = 0 THEN c ELSE NONE],
      held |-> {EntityNew(0, c)},
      last |-> [op |-> "none", entity |-> NoEntity, before |-> << >>],
      panicked |-> FALSE,
      ops |-> 0 ]

InitAlloc == alloc = AfterFreshSpawns(0)

\* the allocator at the start, or late in a run that used up the ids or the
\* versions of id 0
InitWrap ==
    alloc \in { AfterFreshSpawns(k) : k \in {0, U16 - 2, U16 - 1} }
              \cup { AfterCycles(c) : c \in {U16 - 2, U16 - 1} }

InitRest == InitGrow /\ InitLink /\ InitAlloc

InitEvents ==
    /\ queue = EventQueueNew
    /\ last_count = 0
    /\ readLog = << >>
    /\ evh = [age |-> << >>, sinceSend |-> 0, sinceRead |-> 0, sinceFull |-> 0,
              twiceSinceRead |-> FALSE, twiceSinceFull |-> FALSE, full |-> FALSE,
              partial |-> FALSE]

InitSchedule ==
    /\ table = << >>
    /\ schedule = ScheduleNew
    /\ exec = [phase |-> "idle", bucket |-> 0, calls |-> 0]
    /\ task = << >>

InitWorld ==
    /\ world = WorldNew
    /\ commands = << >>
    /\ issued = {}
    /\ despawned = {}
    /\ reissued = FALSE
    /\ last = NoCall
    /\ prev = NoCall
    /\ direct = WorldNew
    /\ hmap = << >>
    /\ rep = NoRep
    /\ nops = 0

Idle == ~world.panicked /\ commands = << >> /\ nops < MaxOps

(***************************************************************************)
(* Direct calls of the World mutators                                      *)
(***************************************************************************)
Spawn(bundle) ==
    /\ Idle
    /\ LET r == WorldSpawn(world, bundle)
       IN /\ world' = AfterCall(world, r.w)
          /\ issued' = issued \cup {r.entity}
          /\ reissued' = (reissued \/ r.entity \in despawned)
          /\ last' = Call("spawn", r.entity, "-", 0, None, None, TRUE)
    /\ prev' = NoCall
    /\ nops' = nops + 1
    /\ direct' = world'
    /\ rep' = NoRep
    /\ UNCHANGED << commands, despawned, hmap >>

SetComponent(entity, t, component) ==
    /\ Idle
    /\ LET r == ComponentsSetComponent(world, entity, t, component)
       IN last' = Call("set_component", entity, t, component,
                       IF WorldIsAlive(world, entity) THEN r.ret ELSE None,
                       SparseSetGet(world.entity_signatures, entity.id),
                       WorldIsAlive(world, entity))
    /\ world' = AfterCall(world, WorldSetComponent(world, entity, t, component))
    /\ prev' = IF last.op = "set_component" THEN last ELSE NoCall
    /\ nops' = nops + 1
    /\ direct' = world'
    /\ rep' = NoRep
    /\ UNCHANGED << commands, issued, despawned, reissued, hmap >>

RemoveComponent(entity, t) ==
    /\ Idle
    /\ last' = Call("remove_component", entity, t, 0,
                    IF WorldIsAlive(world, entity)
                    THEN ComponentsRemoveComponent(world, entity, t).ret ELSE None,
                    SparseSetGet(world.entity_signatures, entity.id),
                    WorldIsAlive(world, entity))
    /\ world' = AfterCall(world, WorldRemoveComponent(world, entity, t))
    /\ prev' = NoCall
    /\ nops' = nops + 1
    /\ direct' = world'
    /\ rep' = NoRep
    /\ UNCHANGED << commands, issued, despawned, reissued, hmap >>

Despawn(entity) ==
    /\ Idle
    /\ world' = AfterCall(world, WorldDespawn(world, entity))
    /\ despawned' = despawned \cup {entity}
    /\ last' = Call("despawn", entity, "-", 0, None,
                    SparseSetGet(world.entity_signatures, entity.id),
                    WorldIsAlive(world, entity))
    /\ prev' = NoCall
    /\ nops' = nops + 1
    /\ direct' = world'
    /\ rep' = NoRep
    /\ UNCHANGED << commands, issued, reissued, hmap >>

AddChild(parent, child) ==
    /\ Idle
    /\ world' = AfterCall(world, WorldAddChild(world, parent, child))
    /\ last' = Call("add_child", parent, "-", 0, None, None, WorldIsAlive(world, parent))
    /\ prev' = NoCall
    /\ nops' = nops + 1
    /\ direct' = world'
    /\ rep' = NoRep
    /\ UNCHANGED << commands, issued, despawned, reissued, hmap >>

InsertResource(r, resource) ==
    /\ Idle
    /\ world' = AfterCall(world, WorldInsertResource(world, r, resource))
    /\ last' = Call("insert_resource", NoEntity, r, resource, WorldGetResource(world, r),
                    None, FALSE)
    /\ prev' = NoCall
    /\ nops' = nops + 1
    /\ direct' = world'
    /\ rep' = NoRep
    /\ UNCHANGED << commands, issued, despawned, reissued, hmap >>

RemoveResource(r) ==
    /\ Idle
    /\ world' = AfterCall(world, WorldRemoveResource(world, r))
    /\ last' = Call("remove_resource", NoEntity, r, 0, WorldGetResource(world, r),
                    None, FALSE)
    /\ prev' = NoCall
    /\ nops' = nops + 1
    /\ direct' = world'
    /\ rep' = NoRep
    /\ UNCHANGED << commands, issued, despawned, reissued, hmap >>

(***************************************************************************)
(* A system enqueues commands; the buffer is joined and replayed afterwards *)
(***************************************************************************)
Enqueueing == ~world.panicked /\ nops < MaxOps

\* the World, the handle map and the history the next direct call starts from
Base == IF commands = << >> THEN world ELSE direct
BaseMap == IF commands = << >> THEN << >> ELSE hmap
BaseRep == IF commands = << >> THEN NoRep ELSE rep

Translate(entity) == IF entity \in DOMAIN BaseMap THEN BaseMap[entity] ELSE entity

CmdSpawn(bundle) ==
    /\ Enqueueing
    /\ LET r == CommandsSpawn(world, commands, bundle)
           d == WorldSpawn(Base, bundle)
       IN /\ world' = r.w
          /\ commands' = r.queue
          /\ issued' = issued \cup {r.entity}
          /\ reissued' = (reissued \/ r.entity \in despawned)
          /\ direct' = d.w
          /\ hmap' = [x \in (DOMAIN BaseMap) \cup {r.entity} |->
                         IF x = r.entity THEN d.entity ELSE BaseMap[x]]
    /\ rep' = [BaseRep EXCEPT !.n = @ + 1, !.sawSpawn = TRUE,
                              !.spawnAfterDespawn = (@ \/ BaseRep.sawDespawn)]
    /\ last' = NoCall
    /\ prev' = NoCall
    /\ nops' = nops + 1
    /\ UNCHANGED despawned

CmdSetComponent(entity, t, component) ==
    /\ Enqueueing
    /\ commands' = CommandsSetComponent(commands, entity, t, component)
    /\ direct' = WorldSetComponent(Base, Translate(entity), t, component)
    /\ hmap' = BaseMap
    /\ rep' = [BaseRep EXCEPT !.n = @ + 1]
    /\ last' = NoCall
    /\ prev' = NoCall
    /\ nops' = nops + 1
    /\ UNCHANGED << world, issued, despawned, reissued >>

CmdRemoveComponent(entity, t) ==
    /\ Enqueueing
    /\ commands' = CommandsRemoveComponent(commands, entity, t)
    /\ direct' = WorldRemoveComponent(Base, Translate(entity), t)
    /\ hmap' = BaseMap
    /\ rep' = [BaseRep EXCEPT !.n = @ + 1]
    /\ last' = NoCall
    /\ prev' = NoCall
    /\ nops' = nops + 1
    /\ UNCHANGED << world, issued, despawned, reissued >>

CmdDespawn(entity) ==
    /\ Enqueueing
    /\ commands' = CommandsDespawn(commands, entity)
    /\ direct' = WorldDespawn(Base, Translate(entity))
    /\ hmap' = BaseMap
    /\ rep' = [BaseRep EXCEPT !.n = @ + 1, !.sawDespawn = TRUE,
                              !.spawnBeforeDespawn = (@ \/ BaseRep.sawSpawn)]
    /\ last' = NoCall
    /\ prev' = NoCall
    /\ nops' = nops + 1
    /\ UNCHANGED << world, issued, despawned, reissued >>

CmdAddChild(parent, child) ==
    /\ Enqueueing
    /\ commands' = CommandsAddChild(commands, parent, child)
    /\ direct' = WorldAddChild(Base, Translate(parent), Translate(child))
    /\ hmap' = BaseMap
    /\ rep' = [BaseRep EXCEPT !.n = @ + 1]
    /\ last' = NoCall
    /\ prev' = NoCall
    /\ nops' = nops + 1
    /\ UNCHANGED << world, issued, despawned, reissued >>

CmdInsertResource(r, resource) ==
    /\ Enqueueing
    /\ commands' = CommandsInsertResource(commands, r, resource)
    /\ direct' = WorldInsertResource(Base, r, resource)
    /\ hmap' = BaseMap
    /\ rep' = [BaseRep EXCEPT !.n = @ + 1]
    /\ last' = NoCall
    /\ prev' = NoCall
    /\ nops' = nops + 1
    /\ UNCHANGED << world, issued, despawned, reissued >>

CmdRemoveResource(r) ==
    /\ Enqueueing
    /\ commands' = CommandsRemoveResource(commands, r)
    /\ direct' = WorldRemoveResource(Base, r)
    /\ hmap' = BaseMap
    /\ rep' = [BaseRep EXCEPT !.n = @ + 1]
    /\ last' = NoCall
    /\ prev' = NoCall
    /\ nops' = nops + 1
    /\ UNCHANGED << world, issued, despawned, reissued >>

\* SystemParam::after joins the system's queue into the World's buffer and
\* Schedule::run replays it with World::process_command_buffer
Replay ==
    /\ ~world.panicked
    /\ commands # << >>
    /\ world' = AfterCall(world, WorldProcessCommandBuffer(
                    [world EXCEPT !.command_buffer = CommandsJoin(@, commands)]))
    /\ commands' = << >>
    /\ despawned' = despawned \cup
           {commands[i].entity : i \in {j \in 1 .. Len(commands) : commands[j].kind = "Despawn"}}
    /\ rep' = [rep EXCEPT !.replayed = TRUE,
                           !.trace = ReplayTrace(CommandsJoin(world.command_buffer, commands),
                                                 [world EXCEPT !.command_buffer = << >>])]
    /\ last' = NoCall
    /\ prev' = NoCall
    /\ UNCHANGED << issued, reissued, direct, hmap, nops >>

\* a program that calls the World mutators directly
NextDirect ==
    \/ \E bundle \in Bundles : Spawn(bundle)
    \/ \E entity \in issued, t \in CompTypes, component \in Vals : SetComponent(entity, t, component)
    \/ \E entity \in issued, t \in CompTypes : RemoveComponent(entity, t)
    \/ \E entity \in issued : Despawn(entity)
    \/ \E parent \in issued, child \in issued : AddChild(parent, child)
    \/ \E r \in ResTypes, resource \in Vals : InsertResource(r, resource)
    \/ \E r \in ResTypes : RemoveResource(r)

\* a program whose systems also enqueue commands that are replayed afterwards
NextWorld ==
    \/ NextDirect
    \/ \E bundle \in Bundles : CmdSpawn(bundle)
    \/ \E entity \in issued, t \in CompTypes, component \in Vals : CmdSetComponent(entity, t, component)
    \/ \E entity \in issued, t \in CompTypes : CmdRemoveComponent(entity, t)
    \/ \E entity \in issued : CmdDespawn(entity)
    \/ \E parent \in issued, child \in issued : CmdAddChild(parent, child)
    \/ \E r \in ResTypes, resource \in Vals : CmdInsertResource(r, resource)
    \/ \E r \in ResTypes : CmdRemoveResource(r)
    \/ Replay

(***************************************************************************)
(* Schedule::add_system, SystemId::mark_dead and Schedule::run, whose      *)
(* buckets run their systems as tasks                                      *)
(***************************************************************************)
Shapes == { << Param("Mut", "A") >>, << Param("Ref", "A") >>, << Param("ResMut", "R") >> }

\* parameter lists that claim one id twice
InvalidShapes ==
    { << Param("Res", "R"), Param("ResMut", "R") >>,
      << Param("ResMut", "R"), Param("ResMut", "R") >>,
      << Param("Ref", "A"), Param("Mut", "A") >>,
      << Param("Mut", "A"), Param("Mut", "A") >> }

\* World::insert_resource of R, before any system is added
InsertResources ==
    /\ ~world.panicked
    /\ exec.phase = "idle"
    /\ exec.calls = 0
    /\ world' = AfterCall(world, WorldInsertResource(world, "R", 1))
    /\ exec' = [exec EXCEPT !.calls = @ + 1]
    /\ UNCHANGED << table, schedule, task >>

AddSystem(params) ==
    /\ ~world.panicked
    /\ exec.phase = "idle"
    /\ exec.calls < MaxCalls
    /\ table' = Append(table, SystemNew(params))
    /\ schedule' = ScheduleAddSystem(schedule, Len(table) + 1)
    /\ task' = Append(task, "idle")
    /\ exec' = [exec EXCEPT !.calls = @ + 1]
    /\ UNCHANGED world

MarkDead(idx) ==
    /\ ~world.panicked
    /\ exec.phase = "idle"
    /\ table[idx].alive
    /\ exec.calls < MaxCalls
    /\ table' = [table EXCEPT ![idx].alive = FALSE]
    /\ exec' = [exec EXCEPT !.calls = @ + 1]
    /\ UNCHANGED << world, schedule, task >>

\* Schedule::run up to the call of execute: every queued system is initialized
RunStart ==
    /\ ~world.panicked
    /\ exec.phase = "idle"
    /\ exec.calls < MaxCalls
    /\ LET r == ScheduleInitAll(schedule, table, world)
       IN IF r.w.panicked
          THEN /\ world' = Panic(world)
               /\ exec' = [exec EXCEPT !.calls = @ + 1]
               /\ UNCHANGED << table, schedule >>
          ELSE /\ world' = r.w
               /\ table' = r.table
               /\ schedule' = r.sched
               /\ exec' = [phase |-> "executing", bucket |-> 0, calls |-> exec.calls + 1]
    /\ UNCHANGED task

CurrentBucket == schedule.parallel_execution_queue[exec.bucket + 1]

Executing ==
    /\ ~world.panicked
    /\ exec.phase = "executing"
    /\ exec.bucket < Len(schedule.parallel_execution_queue)

\* the bucket's scope returns at once, whatever its tasks do
ScopeNotJoined(bucket) == TRUE

\* ThreadPool::in_place_scope returns when every task spawned in it is done
ScopeJoined(bucket) == \A p \in 1 .. Len(bucket.systems) : task[bucket.systems[p]] = "done"

\* the sequential loop over a bucket is past its last system
LoopDone(bucket) == \A p \in 1 .. Len(bucket.systems) : task[bucket.systems[p]] = "done"

\* a system starts: as a task of the scope in a parallel bucket, else as the
\* next system of the sequential loop
TaskStart(idx) ==
    /\ Executing
    /\ \E p \in 1 .. Len(CurrentBucket.systems) :
          /\ CurrentBucket.systems[p] = idx
          /\ task[idx] = "idle"
          /\ CurrentBucket.should_run_paralell
                \/ \A q \in 1 .. (p - 1) : task[CurrentBucket.systems[q]] = "done"
    /\ task' = [task EXCEPT ![idx] = "running"]
    /\ UNCHANGED << world, table, schedule, exec >>

TaskFinish(idx) ==
    /\ Executing
    /\ task[idx] = "running"
    /\ task' = [task EXCEPT ![idx] = "done"]
    /\ UNCHANGED << world, table, schedule, exec >>

\* execute moves on to the next bucket
BucketJoin ==
    /\ Executing
    /\ IF CurrentBucket.should_run_paralell THEN ScopeJoined(CurrentBucket)
                                            ELSE LoopDone(CurrentBucket)
    /\ exec' = [exec EXCEPT !.bucket = @ + 1]
    /\ UNCHANGED << world, table, schedule, task >>

\* the end of execute and of run: dead systems are pruned, the command buffer
\* is replayed
RunFinish ==
    /\ ~world.panicked
    /\ exec.phase = "executing"
    /\ exec.bucket = Len(schedule.parallel_execution_queue)
    /\ schedule' = SchedulePrune(schedule, table, 1)
    /\ world' = AfterCall(world, WorldProcessCommandBuffer(world))
    /\ exec' = [exec EXCEPT !.phase = "idle", !.bucket = 0]
    /\ task' = [i \in 1 .. Len(task) |-> "idle"]
    /\ UNCHANGED table

NextSchedule ==
    \/ InsertResources
    \/ \E params \in Shapes : AddSystem(params)
    \/ \E idx \in 1 .. Len(table) : MarkDead(idx)
    \/ RunStart
    \/ \E idx \in 1 .. Len(table) : TaskStart(idx)
    \/ \E idx \in 1 .. Len(table) : TaskFinish(idx)
    \/ BucketJoin
    \/ RunFinish

\* a schedule of systems whose parameter lists are invalid
NextValidate ==
    \/ InsertResources
    \/ \E params \in InvalidShapes : AddSystem(params)
    \/ RunStart
    \/ \E idx \in 1 .. Len(table) : TaskStart(idx)
    \/ \E idx \in 1 .. Len(table) : TaskFinish(idx)
    \/ BucketJoin
    \/ RunFinish

(***************************************************************************)
(* EventQueue::send, EventQueue::update and the reads of one EventReader   *)
(* whose cursor exists from the start                                      *)
(***************************************************************************)
Cap2(n) == Min(n, 2)

Send ==
    /\ queue.count < MaxEvents
    /\ queue' = EventQueueSend(queue, queue.count)
    /\ evh' = [evh EXCEPT !.age = Append(@, 0), !.sinceSend = 0, !.full = FALSE]
    /\ UNCHANGED << last_count, readLog >>

Update ==
    /\ queue' = EventQueueUpdate(queue)
    /\ evh' = [evh EXCEPT !.age = [g \in 1 .. Len(@) |-> Cap2(@[g] + 1)],
                          !.sinceSend = Cap2(@ + 1),
                          !.sinceRead = Cap2(@ + 1),
                          !.sinceFull = Cap2(@ + 1),
                          !.twiceSinceRead = (@ \/ evh.sinceRead >= 1),
                          !.twiceSinceFull = (@ \/ evh.sinceFull >= 1),
                          !.full = FALSE]
    /\ UNCHANGED << last_count, readLog >>

\* read() and n items taken from the iterator: all of them, or fewer
Read(n) ==
    /\ n <= Len(EventIteratorNew(queue, last_count).iter)
    /\ LET r == EventReaderRead(queue, last_count, n)
           all == (n = Len(EventIteratorNew(queue, last_count).iter))
       IN /\ last_count' = r.last_count
          /\ readLog' = readLog \o r.yielded
          /\ evh' = [evh EXCEPT !.sinceRead = 0,
                                !.sinceFull = IF all THEN 0 ELSE @,
                                !.full = all,
                                !.partial = (@ \/ ~all)]
    /\ UNCHANGED queue

NextEvents ==
    \/ Send
    \/ Update
    \/ \E n \in 0 .. MaxEvents : Read(n)

(***************************************************************************)
(* A program that spawns entities, links them as parents and children,     *)
(* and calls the World with handles that may be dead                       *)
(***************************************************************************)
HierarchyIdle == ~world.panicked /\ commands = << >> /\ nops < MaxHierarchyOps

\* the call is made on the World and recorded with the World it found
HierarchyCall(op, entity, child, result) ==
    /\ HierarchyIdle
    /\ world' = AfterCall(world, result)
    /\ call' = [op |-> op, entity |-> entity, child |-> child, world |-> world]
    /\ nops' = nops + 1
    /\ UNCHANGED << commands, reissued, last, prev, direct, hmap, rep >>

HierarchySpawn ==
    /\ world.highest_free_entity_id < MaxOps
    /\ LET r == WorldSpawn(world, << >>)
       IN /\ HierarchyCall("spawn", r.entity, NoEntity, r.w)
          /\ issued' = issued \cup {r.entity}
    /\ UNCHANGED despawned

HierarchySetComponent(entity) ==
    /\ HierarchyCall("set_component", entity, NoEntity, WorldSetComponent(world, entity, "A", 1))
    /\ UNCHANGED << issued, despawned >>

HierarchyRemoveComponent(entity) ==
    /\ HierarchyCall("remove_component", entity, NoEntity, WorldRemoveComponent(world, entity, "A"))
    /\ UNCHANGED << issued, despawned >>

HierarchyAddChild(parent, child) ==
    /\ HierarchyCall("add_child", parent, child, WorldAddChild(world, parent, child))
    /\ UNCHANGED << issued, despawned >>

HierarchyRemoveChild(parent, child) ==
    /\ HierarchyCall("remove_child", parent, child, WorldRemoveChild(world, parent, child))
    /\ UNCHANGED << issued, despawned >>

HierarchyRemoveChildren(entity) ==
    /\ HierarchyCall("remove_children", entity, NoEntity, WorldRemoveChildren(world, entity))
    /\ UNCHANGED << issued, despawned >>

HierarchyDespawn(entity) ==
    /\ HierarchyCall("despawn", entity, NoEntity, WorldDespawn(world, entity))
    /\ despawned' = despawned \cup {entity}
    /\ UNCHANGED issued

NextHierarchy ==
    \/ HierarchySpawn
    \/ \E entity \in issued : HierarchySetComponent(entity)
    \/ \E entity \in issued : HierarchyRemoveComponent(entity)
    \/ \E parent \in issued, child \in issued : HierarchyAddChild(parent, child)
    \/ \E parent \in issued, child \in issued : HierarchyRemoveChild(parent, child)
    \/ \E entity \in issued : HierarchyRemoveChildren(entity)
    \/ \E entity \in issued : HierarchyDespawn(entity)

(***************************************************************************)
(* A program that registers component and resource types on every path     *)
(***************************************************************************)
RegistryCall(op, t, id, result) ==
    /\ ~world.panicked /\ commands = << >> /\ nops < MaxRegistryOps
    /\ world' = AfterCall(world, result)
    /\ reg' = [op |-> op, type |-> t, id |-> id, world |-> world]
    /\ nops' = nops + 1
    /\ UNCHANGED << commands, despawned, reissued, last, prev, direct, hmap, rep >>

\* one entity without components, for set_component to act on
RegistrySpawn ==
    /\ issued = {}
    /\ LET r == WorldSpawn(world, << >>)
       IN /\ RegistryCall("spawn", "-", NONE, r.w)
          /\ issued' = {r.entity}

RegisterComponent(t) ==
    /\ LET w == ComponentsRegisterComponent(world, t)
       IN RegistryCall("register_component", t, w.component_records[t], w)
    /\ UNCHANGED issued

RegistrySetComponent(entity, t) ==
    /\ RegistryCall("set_component", t, NONE, WorldSetComponent(world, entity, t, 1))
    /\ UNCHANGED issued

RegisterResource(r) ==
    /\ LET w == ResourcesRegister(world, r)
       IN RegistryCall("register_resource", r, w.resource_ids[r], w)
    /\ UNCHANGED issued

RegistryInsertResource(r) ==
    /\ RegistryCall("insert_resource", r, NONE, WorldInsertResource(world, r, 1))
    /\ UNCHANGED issued

RegistryRemoveResource(r) ==
    /\ RegistryCall("remove_resource", r, NONE, WorldRemoveResource(world, r))
    /\ UNCHANGED issued

GetResourceOrInsertWith(r) ==
    /\ RegistryCall("get_resource_or_insert_with", r, NONE,
                    WorldGetResourceOrInsertWith(world, r, 2))
    /\ UNCHANGED issued

NextRegistry ==
    \/ RegistrySpawn
    \/ \E t \in CompTypes : RegisterComponent(t)
    \/ \E entity \in issued, t \in CompTypes : RegistrySetComponent(entity, t)
    \/ \E r \in ResTypes : RegisterResource(r)
    \/ \E r \in ResTypes : RegistryInsertResource(r)
    \/ \E r \in ResTypes : RegistryRemoveResource(r)
    \/ \E r \in ResTypes : GetResourceOrInsertWith(r)

(***************************************************************************)
(* A program whose parallel systems reserve entities: Commands::spawn in   *)
(* the systems of one bucket, each call split at its atomic operation      *)
(***************************************************************************)
ReserveCall(result) ==
    /\ scope.phase = "idle"
    /\ ~entities.panicked
    /\ scope.nops < MaxReserveOps
    /\ entities' = AfterCall(entities, result)
    /\ scope' = [scope EXCEPT !.nops = @ + 1]

\* World::spawn(()) between two runs
ReserveSpawn ==
    /\ EntitiesSpawn(entities).entity.id \in Ids
    /\ ReserveCall(WorldSpawn(entities, << >>).w)

\* World::despawn between two runs
ReserveDespawn(entity) ==
    /\ WorldIsAlive(entities, entity)
    /\ ReserveCall(WorldDespawn(entities, entity))

\* Schedule::execute enters a bucket: every system of it is spawned on the pool
BucketStart ==
    /\ scope.phase = "idle"
    /\ ~entities.panicked
    /\ scope.nops < MaxReserveOps
    /\ scope' = [phase |-> "bucket", nops |-> scope.nops + 1, returned |-> << >>,
                  task |-> [t \in Tasks |-> [pc |-> "ready", free_entity_index |-> 0]]]
    /\ UNCHANGED entities

At(pc) == Cardinality({t \in Tasks : scope.task[t].pc = pc})

\* the fresh ids that the calls in flight and one more call can still take
FreshIdsNeeded ==
    IF Len(entities.free_entity_ids) = 0 THEN At("fresh") + 1
    ELSE At("fresh") + Max(0, At("claim") + 1
                - Max(0, Len(entities.free_entity_ids) - entities.claimed_free_entities))

\* Entities::spawn, line 79: free_entity_ids.is_empty()
SpawnIsEmpty(t) ==
    /\ scope.phase = "bucket"
    /\ scope.task[t].pc = "ready"
    /\ entities.highest_free_entity_id + FreshIdsNeeded <= Cardinality(Ids)
    /\ scope' = [scope EXCEPT !.task[t].pc =
                      IF Len(entities.free_entity_ids) = 0 THEN "fresh" ELSE "claim"]
    /\ UNCHANGED entities

\* line 83: claimed_free_entities.fetch_add(1) and the checked_sub
SpawnClaim(t) ==
    /\ scope.phase = "bucket"
    /\ scope.task[t].pc = "claim"
    /\ LET r == FetchAdd(entities, "claimed_free_entities")
           free_entity_index == FreeEntityIndex(entities, r.old)
       IN /\ entities' = r.w
          /\ scope' = IF free_entity_index = None
                       THEN [scope EXCEPT !.task[t].pc = "fresh"]
                       ELSE [scope EXCEPT !.task[t] =
                                [pc |-> "read", free_entity_index |-> free_entity_index[1]]]

\* lines 85-87: the id of the claimed slot and its version
SpawnRead(t) ==
    /\ scope.phase = "bucket"
    /\ scope.task[t].pc = "read"
    /\ scope' = [scope EXCEPT
                    !.task[t].pc = "done",
                    !.returned = Append(@, [task |-> t,
                        entity |-> EntityOfFreeSlot(entities, scope.task[t].free_entity_index)])]
    /\ UNCHANGED entities

\* lines 80-81 and 89-90: highest_free_entity_id.fetch_add(1)
SpawnFresh(t) ==
    /\ scope.phase = "bucket"
    /\ scope.task[t].pc = "fresh"
    /\ LET r == FetchAdd(entities, "highest_free_entity_id")
       IN /\ entities' = r.w
          /\ scope' = [scope EXCEPT
                          !.task[t].pc = "done",
                          !.returned = Append(@, [task |-> t, entity |-> EntityNew(r.old, 0)])]

\* the Spawn commands of the systems, joined in system order
RECURSIVE ReservedCommands(_)
ReservedCommands(t) ==
    IF t > MaxTasks THEN << >>
    ELSE LET mine == {i \in 1 .. Len(scope.returned) : scope.returned[i].task = t}
         IN (IF mine = {} THEN << >>
             ELSE << Cell("Spawn", scope.returned[CHOOSE i \in mine : TRUE].entity,
                          NoEntity, << >>, 0, 0) >>)
            \o ReservedCommands(t + 1)

\* the scope of the bucket ends, the command queues are joined and replayed
ReserveJoin ==
    /\ scope.phase = "bucket"
    /\ \A t \in Tasks : scope.task[t].pc \in {"ready", "done"}
    /\ entities' = AfterCall(entities, WorldProcessCommandBuffer(
                       [entities EXCEPT !.command_buffer = CommandsJoin(@, ReservedCommands(1))]))
    /\ scope' = [scope EXCEPT !.phase = "idle"]

NextReserve ==
    \/ ReserveSpawn
    \/ \E entity \in MaterializedEntities(entities) : ReserveDespawn(entity)
    \/ BucketStart
    \/ \E t \in Tasks : SpawnIsEmpty(t)
    \/ \E t \in Tasks : SpawnClaim(t)
    \/ \E t \in Tasks : SpawnRead(t)
    \/ \E t \in Tasks : SpawnFresh(t)
    \/ ReserveJoin

(***************************************************************************)
(* A program that chains schedule runs and observer signals: the system of *)
(* label k inserts Success[k] and runs the schedule of label k + 1, the    *)
(* observer of event k inserts Success[k] and signals event k + 1          *)
(***************************************************************************)
AppCall(op, arg, result) ==
    /\ ~app.panicked
    /\ ~prog.handle.open
    /\ prog.nops < MaxAppOps
    /\ app' = AfterCall(app, result)
    /\ prog' = [prog EXCEPT !.nops = @ + 1, !.op = op, !.arg = arg, !.world = app]

InsertCall(k) == [kind |-> "insert_resource", arg |-> Success[k]]

\* the closures a system of label k can have
SystemScripts(k) ==
    IF k = MaxChain THEN {<< InsertCall(k) >>}
    ELSE {<< [kind |-> "run_schedule", arg |-> k + 1], InsertCall(k) >>,
          << InsertCall(k), [kind |-> "run_schedule", arg |-> k + 1] >>,
          << InsertCall(k) >>}

\* the closures an observer of event k can have
ObserverScripts(k) ==
    IF k = MaxChain THEN {<< InsertCall(k) >>}
    ELSE {<< InsertCall(k), [kind |-> "send_signal", arg |-> ChainEvents[k + 1]] >>,
          << [kind |-> "send_signal", arg |-> ChainEvents[k + 1]], InsertCall(k) >>,
          << InsertCall(k) >>}

Building == prog.op \in {"none", "add_system", "add_observer"}

\* world.add_system(label, |mut commands: Commands| ..), labels in order
ChainAddSystem(script) ==
    /\ Building
    /\ Cardinality(DOMAIN app.schedules) < MaxChain
    /\ LET label == Cardinality(DOMAIN app.schedules) + 1
       IN /\ script \in SystemScripts(label)
          /\ AppCall("add_system", label, WorldAddSystem(app, label, script))

\* world.add_observer(|_: Signal<E>, mut commands: Commands| ..), events in order
ChainAddObserver(script) ==
    /\ Building
    /\ Len(app.observers.systems) < MaxChain
    /\ LET k == Len(app.observers.systems) + 1
       IN /\ script \in ObserverScripts(k)
          /\ AppCall("add_observer", k,
                     WorldAddObserver(app, [event |-> ChainEvents[k],
                                            resource_access |-> AccessDefault,
                                            script |-> script]))

\* world.run_schedule(label)
ChainRunSchedule(label) ==
    AppCall("run_schedule", label, WorldRunSchedule(app, label))

\* world.send_signal(event, None)
ChainSendSignal(k) ==
    AppCall("send_signal", k, WorldSendSignal(app, ChainEvents[k]))

NextChain ==
    \/ \E k \in Labels : \E script \in SystemScripts(k) : ChainAddSystem(script)
    \/ \E k \in Labels : \E script \in ObserverScripts(k) : ChainAddObserver(script)
    \/ \E label \in Labels : ChainRunSchedule(label)
    \/ \E k \in Labels : ChainSendSignal(k)

(***************************************************************************)
(* A program that registers observers of two event types, marks some of    *)
(* them dead and sends signals                                             *)
(***************************************************************************)
Tick == ChainEvents[1]
Other == ChainEvents[2]

\* the observers of that program: some write the resource R (ResMut<R>), so
\* they go to different buckets, some take the signal only
ObserverShapes ==
    {[event |-> e, resource_access |-> a, script |-> << >>] :
        e \in {Tick, Other},
        a \in {AccessDefault, [immutable |-> {}, mutable |-> {"R"}, mutable_count |-> 1]}}

\* the observers of an event type whose id is alive
LiveObservers(w, event) ==
    {i \in 1 .. Len(w.observers.systems) :
        w.observers.systems[i].event = event /\ w.observers.systems[i].alive}

\* world.add_observer(|_: Signal<E>, ..| ..)
SignalAddObserver(system) ==
    /\ Len(app.observers.systems) < MaxChain
    /\ AppCall("add_observer", 0, WorldAddObserver(app, system))

\* id.mark_dead() on the SystemId that add_observer returned
SignalMarkDead(i) ==
    /\ i \in 1 .. Len(app.observers.systems)
    /\ app.observers.systems[i].alive
    /\ ~app.panicked
    /\ ~prog.handle.open
    /\ prog.nops < MaxAppOps
    /\ app' = [app EXCEPT !.observers.systems[i].alive = FALSE]
    /\ prog' = [prog EXCEPT !.nops = @ + 1, !.op = "mark_dead", !.arg = i, !.world = app]

\* world.send_signal(event, None); due counts the live observers of the
\* event over all the signals sent
SignalSend(k) ==
    /\ ~app.panicked
    /\ ~prog.handle.open
    /\ prog.nops < MaxAppOps
    /\ app' = AfterCall(app, WorldSendSignal(app, ChainEvents[k]))
    /\ prog' = [prog EXCEPT !.nops = @ + 1, !.op = "send_signal", !.arg = k, !.world = app,
                            !.due = @ + Cardinality(LiveObservers(app, ChainEvents[k]))]

NextSignal ==
    \/ \E system \in ObserverShapes : SignalAddObserver(system)
    \/ \E i \in 1 .. MaxChain : SignalMarkDead(i)
    \/ \E k \in {1, 2} : SignalSend(k)

(***************************************************************************)
(* A program that hands signals to the Observers one by one and lets them  *)
(* execute later, so that an observer can hold an input when the next      *)
(* signal of its type arrives                                              *)
(***************************************************************************)
\* the observers of that program: observers of A can signal B from their
\* closure, and some write the resource R, so they go to different buckets
BatchShapes ==
    {[event |-> e, resource_access |-> a, script |-> s] :
        e \in {Tick, Other},
        a \in {AccessDefault, [immutable |-> {}, mutable |-> {"R"}, mutable_count |-> 1]},
        s \in {<< >>, << [kind |-> "send_signal", arg |-> Other] >>}}

BatchCall(op, arg, result) ==
    /\ ~app.panicked
    /\ prog.nops < MaxSignalOps
    /\ app' = AfterCall(app, result)
    /\ prog' = [prog EXCEPT !.nops = @ + 1, !.op = op, !.arg = arg, !.world = app]

\* world.add_observer(|_: Signal<E>, mut commands: Commands| ..)
BatchAddObserver(system) ==
    /\ Building
    /\ Len(app.observers.systems) < MaxChain
    /\ system.event = Other => system.script = << >>
    /\ BatchCall("add_observer", 0, WorldAddObserver(app, system))

\* the signal is stored and Observers::send_signal is called with its index
BatchSend(k) ==
    LET event == ChainEvents[k]
        o == [app.observers EXCEPT !.sent = Append(@, event)]
    IN BatchCall("send_signal", k,
                 [app EXCEPT !.observers =
                     ObserversSendSignal(o, o.event_to_systems[event],
                                         Len(app.observers.sent), 1)])

\* Observers::is_pending
ObserversIsPending(o) == Len(o.queried_buckets) > 0

\* Observers::execute_queried_systems, and the drain of the command buffer
\* that follows a dispatch
BatchExecute ==
    /\ ObserversIsPending(app.observers)
    /\ BatchCall("execute", 0, WorldProcessCommandBuffer(ExecuteQueriedSystems(app)))

NextBatch ==
    \/ \E system \in BatchShapes : BatchAddObserver(system)
    \/ \E k \in {1, 2} : BatchSend(k)
    \/ BatchExecute

(***************************************************************************)
(* A program that changes the resource R through ResMut<R> parameters of   *)
(* the systems of one schedule and through WorldResMut handles             *)
(***************************************************************************)
UpdateLabel == 1

ResMutScripts ==
    {<< [kind |-> "deref", arg |-> "R"] >>,
     << [kind |-> "deref_mut", arg |-> "R"] >>,
     << [kind |-> "deref_mut_if", arg |-> "R"] >>,
     << [kind |-> "deref", arg |-> "R"], [kind |-> "deref_mut", arg |-> "R"],
        [kind |-> "deref_mut", arg |-> "R"] >>}

\* world.insert_resource(R(v))
ChangedInsertResource(v) ==
    AppCall("insert_resource", v, WorldInsertResource(app, "R", v))

\* world.add_system(Update, |mut r: ResMut<R>| ..)
ChangedAddSystem(script) ==
    /\ IF UpdateLabel \in DOMAIN app.schedules
       THEN Len(app.schedules[UpdateLabel]) < MaxChain - 1 ELSE TRUE
    /\ AppCall("add_system", UpdateLabel, WorldAddSystem(app, UpdateLabel, script))

\* world.add_observer(|_: Signal<Changed<R>>| ..)
ChangedAddObserver ==
    /\ Len(app.observers.systems) < MaxChain - 1
    /\ AppCall("add_observer", 0,
               WorldAddObserver(app, [event |-> "Changed<R>", resource_access |-> AccessDefault,
                                      script |-> << >>]))

\* world.run_schedule(Update)
ChangedRunSchedule ==
    AppCall("run_schedule", UpdateLabel, WorldRunSchedule(app, UpdateLabel))

\* let mut r = world.resource_mut::<R>(); aborts when R holds no value
ResourceMut ==
    /\ ~app.panicked
    /\ ~prog.handle.open
    /\ prog.nops < MaxAppOps
    /\ app' = IF WorldGetResource(app, "R") = None THEN Panic(app) ELSE app
    /\ prog' = [prog EXCEPT !.nops = @ + 1, !.op = "resource_mut", !.arg = 0, !.world = app,
                            !.handle = [open |-> WorldGetResource(app, "R") # None,
                                        was_modified |-> FALSE, derefs_mut |-> 0]]

\* WorldResMut::deref: a read through the handle
HandleDeref ==
    /\ prog.handle.open
    /\ prog.nops < MaxAppOps
    /\ prog' = [prog EXCEPT !.nops = @ + 1, !.op = "deref", !.world = app]
    /\ UNCHANGED app

\* WorldResMut::deref_mut: r.0 = v; derefs_mut counts the calls
HandleDerefMut(v) ==
    /\ prog.handle.open
    /\ prog.nops < MaxAppOps
    /\ app' = [app EXCEPT !.resources = SparseSetInsert(@, app.resource_ids["R"], v)]
    /\ prog' = [prog EXCEPT !.nops = @ + 1, !.op = "deref_mut", !.world = app,
                            !.handle.was_modified = TRUE, !.handle.derefs_mut = @ + 1]

\* WorldResMut::drop
HandleDrop ==
    /\ prog.handle.open
    /\ prog.nops < MaxAppOps
    /\ app' = IF prog.handle.was_modified
              THEN WorldSendSignal(WorldSendEvent(app, "Changed<R>"), "Changed<R>")
              ELSE app
    /\ prog' = [prog EXCEPT !.nops = @ + 1, !.op = "drop", !.world = app,
                            !.handle.open = FALSE]

NextChanged ==
    \/ \E v \in Vals : ChangedInsertResource(v)
    \/ \E script \in ResMutScripts : ChangedAddSystem(script)
    \/ ChangedAddObserver
    \/ ChangedRunSchedule
    \/ ResourceMut
    \/ HandleDeref
    \/ \E v \in Vals : HandleDerefMut(v)
    \/ HandleDrop

(***************************************************************************)
(* A program that fills the component registry: it has two types more than *)
(* the registry can hold.  The types are numbered; the first ones are      *)
(* registered in order with register_component, the last ones in any order *)
(* with register_component or lazily with set_component.                   *)
(***************************************************************************)
ManyTypes == 0 .. (MAX_COMPONENTS + 1)
EdgeTypes == (MAX_COMPONENTS - 2) .. (MAX_COMPONENTS + 1)

LimitWorldNew == [WorldNew EXCEPT !.component_records = [t \in ManyTypes |-> NONE]]

InitLimit ==
    /\ world = LimitWorldNew
    /\ reg = [op |-> "none", type |-> 0, id |-> NONE, world |-> LimitWorldNew]

LimitCall(op, t, result, counted) ==
    /\ ~world.panicked
    /\ nops + counted <= MaxLimitOps
    /\ world' = AfterCall(world, result)
    /\ reg' = [op |-> op, type |-> t, id |-> result.component_records[t], world |-> world]
    /\ nops' = nops + counted
    /\ UNCHANGED << commands, despawned, reissued, last, prev, direct, hmap, rep >>

\* world.spawn(()): the entity that set_component acts on
LimitSpawn ==
    /\ issued = {}
    /\ LET r == WorldSpawn(world, << >>)
       IN /\ LimitCall("spawn", 0, r.w, 0)
          /\ issued' = {r.entity}

\* world.register_component::<T>() for the next of the first types
LimitRegisterNext ==
    /\ issued # {}
    /\ RecordsLen(world) \in ManyTypes \ EdgeTypes
    /\ LimitCall("register_component", RecordsLen(world),
                 ComponentsRegisterComponent(world, RecordsLen(world)), 0)
    /\ UNCHANGED issued

LimitReady == issued # {} /\ RecordsLen(world) >= MAX_COMPONENTS - 2

\* world.register_component::<T>() for one of the last types, new or not
LimitRegisterComponent(t) ==
    /\ LimitReady
    /\ LimitCall("register_component", t, ComponentsRegisterComponent(world, t), 1)
    /\ UNCHANGED issued

\* world.set_component(entity, T(1)) for one of the last types, new or not
LimitSetComponent(entity, t) ==
    /\ LimitReady
    /\ LimitCall("set_component", t, WorldSetComponent(world, entity, t, 1), 1)
    /\ UNCHANGED issued

NextLimit ==
    \/ LimitSpawn
    \/ LimitRegisterNext
    \/ \E t \in EdgeTypes : LimitRegisterComponent(t)
    \/ \E entity \in issued, t \in EdgeTypes : LimitSetComponent(entity, t)

(***************************************************************************)
(* A program that inserts and removes a resource whose type has hooks     *)
(***************************************************************************)
HookCall(op, arg, result, ret) ==
    /\ ~app.panicked
    /\ prog.nops < MaxAppOps
    /\ app' = AfterCall(app, result)
    /\ prog' = [prog EXCEPT !.nops = @ + 1, !.op = op, !.arg = arg, !.world = app, !.ret = ret]

\* world.insert_resource(Spawner(v))
HookInsertResource(v) ==
    HookCall("insert_resource", v, WorldInsertResource(app, "Spawner", v),
             ResourcesInsertReturn(app, "Spawner"))

\* world.remove_resource::<Spawner>()
HookRemoveResource ==
    HookCall("remove_resource", 0, WorldRemoveResource(app, "Spawner"),
             WorldGetResource(app, "Spawner"))

NextHooks ==
    \/ \E v \in Vals : HookInsertResource(v)
    \/ HookRemoveResource

(***************************************************************************)
(* A program whose component types Spawner and Tracker have hooks          *)
(***************************************************************************)
ComponentHookCall(op, arg, result, returned) ==
    /\ ~app.panicked
    /\ prog.nops < MaxHookOps
    /\ app' = AfterCall(app, result)
    /\ prog' = [prog EXCEPT !.nops = @ + 1, !.op = op, !.arg = arg, !.world = app,
                            !.issued = @ \cup returned]

\* world.spawn(bundle)
HookSpawn(bundle) ==
    /\ app.highest_free_entity_id < MaxOps
    /\ LET r == WorldSpawn(app, bundle)
       IN ComponentHookCall("spawn", [NoHookArg EXCEPT !.entity = r.entity, !.bundle = bundle],
                            r.w, {r.entity})

\* world.set_component(entity, t(component))
HookSetComponent(entity, t, component) ==
    ComponentHookCall("set_component",
                      [NoHookArg EXCEPT !.entity = entity, !.type = t, !.value = component],
                      WorldSetComponent(app, entity, t, component), {})

\* world.remove_component::<t>(entity)
HookRemoveComponent(entity, t) ==
    ComponentHookCall("remove_component", [NoHookArg EXCEPT !.entity = entity, !.type = t],
                      WorldRemoveComponent(app, entity, t), {})

\* world.despawn(entity)
HookDespawn(entity) ==
    ComponentHookCall("despawn", [NoHookArg EXCEPT !.entity = entity],
                      WorldDespawn(app, entity), {})

NextComponentHooks ==
    \/ \E bundle \in HookBundles : HookSpawn(bundle)
    \/ \E entity \in prog.issued, t \in HookedCompTypes, component \in Vals :
          HookSetComponent(entity, t, component)
    \/ \E entity \in prog.issued, t \in HookedCompTypes : HookRemoveComponent(entity, t)
    \/ \E entity \in prog.issued : HookDespawn(entity)

(***************************************************************************)
(* A program that calls one SparseSet<T> or BlobSparseSet                  *)
(***************************************************************************)
IsBlob == set_under_test.kind = "BlobSparseSet"

\* a call on the set: the set after it, what it returned, and what the call
\* does to a map from key to value
SetCall(op, id, value, set, ret, map) ==
    /\ finite_map.nops < MaxSetOps
    /\ set_under_test' = [set_under_test EXCEPT !.set = set]
    /\ finite_map' = [map |-> map, before |-> finite_map.map, set_before |-> set_under_test.set,
                      nops |-> finite_map.nops + 1,
                      call |-> [op |-> op, id |-> id, value |-> value, ret |-> ret]]

\* set.insert(id, value)
SetInsert(id, value) ==
    LET ss == set_under_test.set
        r == IF IsBlob THEN BlobSparseSetInsert(ss, id, value)
             ELSE [ss |-> SparseSetInsert(ss, id, value), ret |-> SparseSetGet(ss, id)]
    IN SetCall("insert", id, value, r.ss, r.ret, [finite_map.map EXCEPT ![id] = Some(value)])

\* set.remove(id); the BlobSparseSet drops the value and returns nothing
SetRemove(id) ==
    LET ss == set_under_test.set
    IN SetCall("remove", id, 0,
               IF IsBlob THEN BlobSparseSetRemove(ss, id) ELSE SparseSetRemove(ss, id),
               IF IsBlob THEN None ELSE SparseSetGet(ss, id),
               [finite_map.map EXCEPT ![id] = None])

\* blob_sparse_set.remove_as::<T>(id)
SetRemoveAs(id) ==
    /\ IsBlob
    /\ LET r == BlobSparseSetRemoveAs(set_under_test.set, id)
       IN SetCall("remove_as", id, 0, r.ss, r.ret, [finite_map.map EXCEPT ![id] = None])

\* set.entry(id).insert(value)
SetEntryInsert(id, value) ==
    LET ss == set_under_test.set
        entry == SparseSetEntry(ss, id)
    IN SetCall("entry_insert", id, value,
               IF IsBlob THEN BlobSparseSetEntryInsert(ss, entry, value)
               ELSE SparseSetEntryInsert(ss, entry, value),
               None, [finite_map.map EXCEPT ![id] = Some(value)])

\* if let Entry::Occupied(entry) = set.entry(id) { entry.remove() }
SetEntryRemove(id) ==
    LET ss == set_under_test.set
        entry == SparseSetEntry(ss, id)
    IN /\ entry.occupied
       /\ SetCall("entry_remove", id, 0,
                  IF IsBlob THEN BlobSparseSetRemoveByIndex(ss, entry.id, entry.index)
                  ELSE SparseSetEntryRemove(ss, entry),
                  IF IsBlob THEN None ELSE SparseSetGet(ss, id),
                  [finite_map.map EXCEPT ![id] = None])

\* set.clear()
SetClear ==
    SetCall("clear", 0, 0, SparseSetClear(set_under_test.set), None, [k \in Ids |-> None])

NextSet ==
    \/ \E id \in Ids, value \in Vals : SetInsert(id, value)
    \/ \E id \in Ids : SetRemove(id)
    \/ \E id \in Ids : SetRemoveAs(id)
    \/ \E id \in Ids, value \in Vals : SetEntryInsert(id, value)
    \/ \E id \in Ids : SetEntryRemove(id)
    \/ SetClear

(***************************************************************************)
(* A program that spawns entities with bundles of chosen values and reads  *)
(* them back (tests.rs, get_component)                                     *)
(***************************************************************************)
\* the bundles of the program: each component with one of the values
ValuedBundles ==
    { << >> }
    \cup { << [type |-> t, value |-> v] >> : t \in CompTypes, v \in Vals }
    \cup { << [type |-> "A", value |-> a], [type |-> "B", value |-> b] >> : a \in Vals, b \in Vals }

\* the history without the entity
Forget(entity) == [e \in (DOMAIN supplied) \ {entity} |-> supplied[e]]

\* let entity = world.spawn(bundle)
TripSpawn(bundle) ==
    /\ Spawn(bundle)
    /\ LET entity == WorldSpawn(world, bundle).entity
       IN supplied' = [e \in (DOMAIN supplied) \cup {entity} |->
                          IF e = entity THEN bundle ELSE supplied[e]]

\* world.set_component(entity, component)
TripSetComponent(entity, t, component) ==
    /\ SetComponent(entity, t, component)
    /\ supplied' = Forget(entity)

\* world.despawn(entity)
TripDespawn(entity) ==
    /\ Despawn(entity)
    /\ supplied' = Forget(entity)

NextTrip ==
    \/ \E bundle \in ValuedBundles : TripSpawn(bundle)
    \/ \E entity \in issued, t \in CompTypes, component \in Vals : TripSetComponent(entity, t, component)
    \/ \E entity \in issued : TripDespawn(entity)

(***************************************************************************)
(* A program whose systems spawn through Commands and count through a      *)
(* query: fn writer(mut commands: Commands, q: Query<&mut A>) spawns one   *)
(* entity with A, fn reader(q: Query<&A>) counts the entities with A       *)
(***************************************************************************)
BarrierShapes ==
    { [params |-> << Param("Mut", "A") >>, script |-> "spawn"],
      [params |-> << Param("Ref", "A") >>, script |-> "count"] }

\* IntoSystem::into_system: the state of the Commands parameter is an empty
\* Vec<u8>; reserved and seen are history: the entities the closure reserved
\* and the entities it was given by its query at its last execution
BarrierSystem(shape) ==
    [script |-> shape.script, queue |-> << >>, reserved |-> << >>, seen |-> None]
        @@ SystemNew(shape.params)

\* Query::iter: the entities of every group whose signature holds the
\* required bits
QueryEntities(w, required) ==
    UNION {{w.groups[s].dense[i] : i \in 1 .. Len(w.groups[s].dense)} :
               s \in {x \in DOMAIN w.groups : MatchesRequired(x, required)}}

\* System::execute of one system of the program
BarrierSystemExecute(st, idx) ==
    LET system == st.table[idx]
    IN IF system.script = "spawn"
       THEN LET r == CommandsSpawn(st.w, system.queue, << [type |-> "A", value |-> 1] >>)
            IN [st EXCEPT !.w = r.w,
                          !.table[idx].queue = r.queue,
                          !.table[idx].reserved = << r.entity >>]
       ELSE [st EXCEPT !.table[idx].seen =
                Some(QueryEntities(st.w, {st.w.component_records["A"]}))]

\* Schedule::execute, the loop over the buckets and over the systems of each
RECURSIVE BarrierExecuteBuckets(_, _, _)
BarrierExecuteBuckets(st, b, p) ==
    LET buckets == st.sched.parallel_execution_queue
    IN IF b > Len(buckets) THEN st
       ELSE IF p > Len(buckets[b].systems) THEN BarrierExecuteBuckets(st, b + 1, 1)
       ELSE BarrierExecuteBuckets(BarrierSystemExecute(st, buckets[b].systems[p]), b, p + 1)

\* Schedule::execute, the loop of System::after over system_records:
\* Commands::after joins the queue of the system to the World's buffer and
\* empties it
RECURSIVE BarrierAfterSystems(_, _)
BarrierAfterSystems(st, i) ==
    IF i > Len(st.sched.system_records) THEN st
    ELSE LET idx == st.sched.system_records[i].system
         IN BarrierAfterSystems(
                [st EXCEPT !.w.command_buffer = CommandsJoin(@, st.table[idx].queue),
                           !.table[idx].queue = << >>],
                i + 1)

\* Schedule::execute up to the pruning loop: all buckets, then every after
BarrierExecute(st) == BarrierAfterSystems(BarrierExecuteBuckets(st, 1, 1), 1)

\* schedule.add_system(writer) or schedule.add_system(reader)
BarrierAddSystem(shape) ==
    /\ ~world.panicked
    /\ exec.phase = "idle"
    /\ exec.calls < MaxCalls
    /\ table' = Append(table, BarrierSystem(shape))
    /\ schedule' = ScheduleAddSystem(schedule, Len(table) + 1)
    /\ exec' = [exec EXCEPT !.calls = @ + 1]
    /\ UNCHANGED << world, task >>

\* schedule.run(&mut world) up to the call of execute
BarrierRunStart ==
    /\ world.highest_free_entity_id
          + Cardinality({i \in 1 .. Len(table) : table[i].script = "spawn"}) <= Cardinality(Ids)
    /\ RunStart

\* Schedule::execute: the buckets in order, then System::after of every system
BarrierExecuteAll ==
    /\ Executing
    /\ exec.bucket = 0
    /\ LET cleared == [i \in DOMAIN table |-> [table[i] EXCEPT !.reserved = << >>, !.seen = None]]
           st == BarrierExecute([sched |-> schedule, table |-> cleared, w |-> world])
       IN /\ world' = st.w
          /\ table' = st.table
    /\ exec' = [exec EXCEPT !.bucket = Len(schedule.parallel_execution_queue)]
    /\ UNCHANGED << schedule, task >>

\* a schedule.run(&mut world) is Schedule::run up to execute, execute, and the
\* end of execute and of run with World::process_command_buffer
NextBarrier ==
    \/ \E shape \in BarrierShapes : BarrierAddSystem(shape)
    \/ BarrierRunStart
    \/ BarrierExecuteAll
    \/ RunFinish

(***************************************************************************)
(* A program whose systems add systems to the schedule they run in:        *)
(* World::run_schedule of a label, Commands::add_system of the same label  *)
(***************************************************************************)
GrowShapes == { << Param("Mut", "A") >>, << Param("Ref", "A") >> }

Added(via) ==
    [runs EXCEPT !.added = Append(@, runs.n), !.via = Append(@, via),
                 !.first = Append(@, 0), !.count = Append(@, 0)]

GrowAddSystem(params) ==
    /\ AddSystem(params)
    /\ pending' = Append(pending, << >>)
    /\ runs' = Added("add_system")

GrowMarkDead(idx) == MarkDead(idx) /\ UNCHANGED growVars

GrowRunStart ==
    /\ RunStart
    /\ runs' = [runs EXCEPT !.n = @ + 1, !.count = [i \in DOMAIN @ |-> 0]]
    /\ UNCHANGED pending

GrowTaskStart(idx) ==
    /\ TaskStart(idx)
    /\ runs' = [runs EXCEPT !.count[idx] = @ + 1,
                            !.first[idx] = IF @ = 0 THEN runs.n ELSE @]
    /\ UNCHANGED pending

\* Commands::add_system called by the closure of a running system: the
\* SystemId is created, the command goes to the queue of that system
CommandsAddSystem(idx, params) ==
    /\ Executing
    /\ task[idx] = "running"
    /\ exec.calls < MaxCalls
    /\ table' = Append(table, SystemNew(params))
    /\ task' = Append(task, "idle")
    /\ pending' = Append([pending EXCEPT ![idx] = Append(@, Len(table) + 1)], << >>)
    /\ runs' = Added("commands")
    /\ exec' = [exec EXCEPT !.calls = @ + 1]
    /\ UNCHANGED << world, schedule >>

GrowTaskFinish(idx) == TaskFinish(idx) /\ UNCHANGED growVars

GrowBucketJoin == BucketJoin /\ UNCHANGED growVars

\* System::after of every record, in record order: the queues are joined
RECURSIVE JoinedAddSystems(_, _, _)
JoinedAddSystems(records, queues, i) ==
    IF i > Len(records) THEN << >>
    ELSE queues[records[i].system] \o JoinedAddSystems(records, queues, i + 1)

\* World::add_system_with_id for each AddSystem command of the buffer
RECURSIVE ReplayAddSystems(_, _)
ReplayAddSystems(sched, buffer) ==
    IF buffer = << >> THEN sched
    ELSE ReplayAddSystems(ScheduleAddSystem(sched, Head(buffer)), Tail(buffer))

\* the end of execute and of run: after, pruning, replay of the buffer
GrowRunFinish ==
    /\ ~world.panicked
    /\ exec.phase = "executing"
    /\ exec.bucket = Len(schedule.parallel_execution_queue)
    /\ LET buffer == JoinedAddSystems(schedule.system_records, pending, 1)
           pruned == SchedulePrune(schedule, table, 1)
       IN schedule' = ReplayAddSystems(pruned, buffer)
    /\ world' = AfterCall(world, WorldProcessCommandBuffer(world))
    /\ exec' = [exec EXCEPT !.phase = "idle", !.bucket = 0]
    /\ task' = [i \in 1 .. Len(task) |-> "idle"]
    /\ pending' = [i \in DOMAIN pending |-> << >>]
    /\ UNCHANGED << table, runs >>

NextGrow ==
    \/ \E params \in GrowShapes : GrowAddSystem(params)
    \/ \E idx \in 1 .. Len(table) : GrowMarkDead(idx)
    \/ GrowRunStart
    \/ \E idx \in 1 .. Len(table) : GrowTaskStart(idx)
    \/ \E idx \in 1 .. Len(table), params \in GrowShapes : CommandsAddSystem(idx, params)
    \/ \E idx \in 1 .. Len(table) : GrowTaskFinish(idx)
    \/ GrowBucketJoin
    \/ GrowRunFinish

(***************************************************************************)
(* A program that creates Worlds and runs one Schedule in them             *)
(***************************************************************************)
LinkReady == ~link.panicked /\ link.ops < MaxLinkOps

\* World::new: the id is WORLD_COUNTER.fetch_add(1)
LinkWorldNew ==
    /\ LinkReady
    /\ worlds' = Append(worlds, WorldNew)
    /\ link' = [link EXCEPT !.ops = @ + 1]

\* Schedule::add_system
LinkAddSystem(params) ==
    /\ LinkReady
    /\ link' = [link EXCEPT !.table = Append(@, SystemNew(params)),
                            !.sched = ScheduleAddSystem(@, Len(link.table) + 1),
                            !.ops = @ + 1]
    /\ UNCHANGED worlds

\* Schedule::run(&mut worlds[i]): the assertion, the initialization of the
\* queued systems, execute, process_command_buffer
LinkRun(i) ==
    /\ LinkReady
    /\ IF ~ScheduleRunAccepts(link.linked_world, i - 1)
       THEN /\ link' = [link EXCEPT !.panicked = TRUE, !.ops = @ + 1]
            /\ UNCHANGED worlds
       ELSE LET r == ScheduleInitAll(link.sched, link.table, worlds[i])
                order == ExecutionOrder(r.sched.parallel_execution_queue, 1)
            IN /\ link' = [link EXCEPT !.sched = SchedulePrune(r.sched, r.table, 1),
                                       !.table = r.table,
                                       !.ran = Append(@, [world |-> i - 1, systems |-> order]),
                                       !.panicked = r.w.panicked,
                                       !.ops = @ + 1]
               /\ worlds' = [worlds EXCEPT ![i] = WorldProcessCommandBuffer(r.w)]

NextLinked ==
    \/ LinkWorldNew
    \/ \E params \in GrowShapes : LinkAddSystem(params)
    \/ \E i \in 1 .. Len(worlds) : LinkRun(i)

(***************************************************************************)
(* A program that spawns and despawns with counters close to their limit   *)
(***************************************************************************)
WrapReady == ~alloc.panicked /\ alloc.ops < MaxWrapOps

\* the highest version issued for an id so far, NONE when the id was never issued
IssuedTop(a, id) ==
    IF id \in TrackedIds THEN a.top[id]
    ELSE IF id < a.fresh THEN 0 ELSE NONE

\* the version Entities::is_alive compares a handle of this id with
StoredVersion(allocator, id) ==
    IF id >= Len(allocator.entity_versions) THEN 0 ELSE allocator.entity_versions[id + 1]

\* a handle issued for this id is alive: it carries the stored version
InUse(a, id) == StoredVersion(a.entities, id) <= IssuedTop(a, id)

Before(a) == [entities |-> a.entities, fresh |-> a.fresh, top |-> a.top]

\* Entities::spawn
WrapSpawn ==
    /\ WrapReady
    /\ LET r == EntitiesSpawn(alloc.entities)
           e == r.entity
       IN alloc' = [alloc EXCEPT
                      !.entities = r.w,
                      !.fresh = Max(@, e.id + 1),
                      !.top = IF e.id \in TrackedIds
                              THEN [@ EXCEPT ![e.id] = Max(@, e.version)] ELSE @,
                      !.held = IF e.id \in TrackedIds THEN @ \cup {e} ELSE @,
                      !.last = [op |-> "spawn", entity |-> e, before |-> Before(alloc)],
                      !.ops = @ + 1]

\* Entities::despawn of an alive entity the program holds. The addition
\* entity_versions[id] += 1 on a u16 that holds 65535 panics in a build with
\* overflow checks and wraps to 0 in a build without them.
WrapDespawn(entity, build) ==
    /\ WrapReady
    /\ entity \in alloc.held
    /\ EntitiesIsAlive(alloc.entities, entity)
    /\ LET overflows == StoredVersion(alloc.entities, entity.id) = U16 - 1
           this == [op |-> "despawn", entity |-> entity, before |-> Before(alloc)]
       IN IF overflows /\ build = "debug"
          THEN alloc' = [alloc EXCEPT !.panicked = TRUE, !.last = this, !.ops = @ + 1]
          ELSE alloc' = [alloc EXCEPT !.entities = EntitiesDespawn(@, entity),
                                      !.last = this,
                                      !.ops = @ + 1]

NextWrap ==
    \/ WrapSpawn
    \/ \E entity \in alloc.held, build \in Builds : WrapDespawn(entity, build)

vars == << worldVars, scheduleVars, eventVars, hierarchyVars, registryVars, reserveVars, appVars, setVars, tripVars, restVars >>

Init == InitWorld /\ InitSchedule /\ InitEvents /\ InitHierarchy /\ InitRegistry /\ InitReserve /\ InitApp /\ InitSet /\ InitTrip /\ InitRest

Next == NextWorld /\ UNCHANGED << scheduleVars, eventVars, hierarchyVars, registryVars, reserveVars, appVars, setVars, tripVars, restVars >>

Spec == Init /\ [][Next]_vars

SpecDirect == Init /\ [][NextDirect /\ UNCHANGED << scheduleVars, eventVars, hierarchyVars, registryVars, reserveVars, appVars, setVars, tripVars, restVars >>]_vars

SpecSchedule == Init /\ [][NextSchedule /\ UNCHANGED << historyVars, eventVars, hierarchyVars, registryVars, reserveVars, appVars, setVars, tripVars, restVars >>]_vars

SpecEvents == Init /\ [][NextEvents /\ UNCHANGED << worldVars, scheduleVars, hierarchyVars, registryVars, reserveVars, appVars, setVars, tripVars, restVars >>]_vars

SpecHierarchy == Init /\ [][NextHierarchy /\ UNCHANGED << scheduleVars, eventVars, registryVars, reserveVars, appVars, setVars, tripVars, restVars >>]_vars

SpecValidate == Init /\ [][NextValidate /\ UNCHANGED << historyVars, eventVars, hierarchyVars, registryVars, reserveVars, appVars, setVars, tripVars, restVars >>]_vars

SpecRegistry == Init /\ [][NextRegistry /\ UNCHANGED << scheduleVars, eventVars, hierarchyVars, reserveVars, appVars, setVars, tripVars, restVars >>]_vars

SpecReserve == Init /\ [][NextReserve /\ UNCHANGED << worldVars, scheduleVars, eventVars, hierarchyVars, registryVars, appVars, setVars, tripVars, restVars >>]_vars

SpecSignal == Init /\ [][NextSignal /\ UNCHANGED << worldVars, scheduleVars, eventVars, hierarchyVars, registryVars, reserveVars, setVars, tripVars, restVars >>]_vars

SpecBatch == Init /\ [][NextBatch /\ UNCHANGED << worldVars, scheduleVars, eventVars, hierarchyVars, registryVars, reserveVars, setVars, tripVars, restVars >>]_vars

SpecChanged == Init /\ [][NextChanged /\ UNCHANGED << worldVars, scheduleVars, eventVars, hierarchyVars, registryVars, reserveVars, setVars, tripVars, restVars >>]_vars

SpecChain == Init /\ [][NextChain /\ UNCHANGED << worldVars, scheduleVars, eventVars, hierarchyVars, registryVars, reserveVars, setVars, tripVars, restVars >>]_vars

InitLimitProgram == InitLimit /\ InitOthers /\ InitSchedule /\ InitEvents /\ InitHierarchy /\ InitReserve /\ InitApp /\ InitSet /\ InitTrip /\ InitRest

SpecLimit == InitLimitProgram /\ [][NextLimit /\ UNCHANGED << scheduleVars, eventVars, hierarchyVars, reserveVars, appVars, setVars, tripVars, restVars >>]_vars

InitHooksProgram == InitWorld /\ InitSchedule /\ InitEvents /\ InitHierarchy /\ InitRegistry /\ InitReserve /\ InitHooks /\ InitSet /\ InitTrip /\ InitRest

SpecHooks == InitHooksProgram /\ [][NextHooks /\ UNCHANGED << worldVars, scheduleVars, eventVars, hierarchyVars, registryVars, reserveVars, setVars, tripVars, restVars >>]_vars

InitComponentHooksProgram == InitWorld /\ InitSchedule /\ InitEvents /\ InitHierarchy /\ InitRegistry /\ InitReserve /\ InitComponentHooks /\ InitSet /\ InitTrip /\ InitRest

SpecComponentHooks == InitComponentHooksProgram /\ [][NextComponentHooks /\ UNCHANGED << worldVars, scheduleVars, eventVars, hierarchyVars, registryVars, reserveVars, setVars, tripVars, restVars >>]_vars

InitSetProgram == InitWorld /\ InitSchedule /\ InitEvents /\ InitHierarchy /\ InitRegistry /\ InitReserve /\ InitApp /\ InitSets /\ InitTrip /\ InitRest

SpecSet == InitSetProgram /\ [][NextSet /\ UNCHANGED << worldVars, scheduleVars, eventVars, hierarchyVars, registryVars, reserveVars, appVars, tripVars, restVars >>]_vars

SpecRoundTrip == Init /\ [][NextTrip /\ UNCHANGED << scheduleVars, eventVars, hierarchyVars, registryVars, reserveVars, appVars, setVars, restVars >>]_vars

SpecBarrier == Init /\ [][NextBarrier /\ UNCHANGED << historyVars, eventVars, hierarchyVars, registryVars, reserveVars, appVars, setVars, tripVars, restVars >>]_vars

SpecGrow == Init /\ [][NextGrow /\ UNCHANGED << historyVars, eventVars, hierarchyVars, registryVars, reserveVars, appVars, setVars, tripVars, linkVars, allocVars >>]_vars

SpecLinked == Init /\ [][NextLinked /\ UNCHANGED << worldVars, scheduleVars, eventVars, hierarchyVars, registryVars, reserveVars, appVars, setVars, tripVars, growVars, allocVars >>]_vars

InitWrapProgram == InitWorld /\ InitSchedule /\ InitEvents /\ InitHierarchy /\ InitRegistry /\ InitReserve /\ InitApp /\ InitSet /\ InitTrip /\ InitGrow /\ InitLink /\ InitWrap

SpecWrap == InitWrapProgram /\ [][NextWrap /\ UNCHANGED << worldVars, scheduleVars, eventVars, hierarchyVars, registryVars, reserveVars, appVars, setVars, tripVars, growVars, linkVars >>]_vars

(***************************************************************************)
(* Properties of the World                                                 *)
(***************************************************************************)
\* the entities that were returned by a spawn, are alive and have been
\* inserted into the component registry
AliveEntities ==
    {e \in issued : WorldIsAlive(world, e) /\ SparseSetContains(world.entity_signatures, e.id)}

SignatureOf(e) == SparseSetGet(world.entity_signatures, e.id)[1]

Registered == {t \in CompTypes : world.component_records[t] # NONE}

\* C1: for every alive entity e and registered component type C, get_component
\* is Some exactly when C's bit is set in e's signature, C's sparse set contains
\* e.id exactly when the bit is set, and after remove_component::<C>(e) the bit
\* is cleared, e is in the group of the reduced signature and get_component is None
C1_SignatureMatchesStorage ==
    ~world.panicked =>
        /\ \A e \in AliveEntities, t \in Registered :
              LET component_id == world.component_records[t]
              IN /\ (WorldGetComponent(world, e, t) # None) <=> (component_id \in SignatureOf(e))
                 /\ SparseSetContains(world.components[component_id + 1], e.id)
                        <=> (component_id \in SignatureOf(e))
        /\ (last.op = "remove_component" /\ last.entity \in AliveEntities
                /\ last.type \in Registered)
              => LET component_id == world.component_records[last.type]
                     reduced == last.sig[1] \ {component_id}
                 IN /\ component_id \notin SignatureOf(last.entity)
                    /\ reduced \in DOMAIN world.groups
                    /\ SparseSetGet(world.groups[reduced], last.entity.id) = Some(last.entity)
                    /\ WorldGetComponent(world, last.entity, last.type) = None

WithTuples == { << >>, << "A" >>, << "B" >>, << "A", "B" >>, << "A", "A" >>,
                << "A", "A", "B", "B" >> }
WithoutTuples == { << >>, << "A" >>, << "B" >> }

Range(seq) == {seq[i] : i \in 1 .. Len(seq)}
Count(seq, x) == Cardinality({i \in 1 .. Len(seq) : seq[i] = x})

\* what one traversal of the query (With<with>, Without<without>) yields
Yielded(with, without) ==
    LET q == QueryFilteredNew(world, with, without)
    IN QueryIter(q.w, q.required, q.excluded)

\* the alive entities whose signature holds all of R and none of X
Matching(with, without) ==
    LET q == QueryFilteredNew(world, with, without)
    IN {e \in AliveEntities :
           q.required \subseteq SignatureOf(e) /\ SignatureOf(e) \cap q.excluded = {}}

\* C7: a traversal of iter() yields each alive entity whose signature holds the
\* required bits and none of the excluded bits exactly once, and no other
\* entity; repeating a type in a With tuple does not change the result, and a
\* With term on a component that no entity has yields nothing
C7_QueryYieldsMatching ==
    ~world.panicked =>
        \A with \in WithTuples, without \in WithoutTuples :
            LET result == Yielded(with, without)
                matching == Matching(with, without)
            IN /\ \A e \in matching : Count(result, e) = 1
               /\ \A i \in 1 .. Len(result) : result[i] \in matching
               /\ \A other \in WithTuples :
                     Range(other) = Range(with) => Yielded(other, without) = result
               /\ (\E t \in Range(with) :
                      \A e \in AliveEntities :
                          t \notin Registered \/ world.component_records[t] \notin SignatureOf(e))
                  => result = << >>

\* three alive entities of which the query (With<A>, Without<B>) yields one
C7_Witness ==
    /\ ~world.panicked
    /\ Cardinality(AliveEntities) = 3
    /\ Len(Yielded(<< "A" >>, << "B" >>)) = 1
    /\ Len(Yielded(<< "A", "A" >>, << >>)) = 2

(***************************************************************************)
(* Command replay against direct calls                                     *)
(***************************************************************************)
\* the state of a World that its callers can see: the alive entities with id
\* and version, signature, component values and children, and the resources
Observable(w) ==
    IF w.panicked THEN [panicked |-> TRUE, entities |-> {}, resources |-> << >>]
    ELSE [panicked |-> FALSE,
          entities |->
              {[entity |-> e,
                signature |-> TypesOf(w, SparseSetGet(w.entity_signatures, e.id)[1]),
                values |-> [t \in CompTypes |-> WorldGetComponent(w, e, t)],
                children |-> WorldChildren(w, e)] :
                  e \in {x \in MaterializedEntities(w) : WorldIsAlive(w, x)}},
          resources |-> [r \in ResTypes |-> WorldGetResource(w, r)]]

Buckets == schedule.parallel_execution_queue

\* the accesses the parameters of an initialized system declared
ComponentAccessOf(idx) == table[idx].component_access[1]
ResourceAccessOf(idx) == table[idx].resource_access[1]

RECURSIVE JoinAll(_, _, _)
JoinAll(systems, p, res) ==
    IF p > Len(systems) THEN AccessDefault
    ELSE AccessJoin(IF res THEN ResourceAccessOf(systems[p]) ELSE ComponentAccessOf(systems[p]),
                    JoinAll(systems, p + 1, res))

SameSets(a, b) == a.immutable = b.immutable /\ a.mutable = b.mutable

\* C3: in every bucket, two distinct systems have compatible component access
\* sets and compatible resource access sets, and the bucket's joined accesses
\* are the self-compatible unions of its members' accesses.
C3_BucketsPairwiseCompatible ==
    \A b \in 1 .. Len(Buckets) :
        LET systems == Buckets[b].systems
        IN /\ \A p, q \in 1 .. Len(systems) :
                p # q => /\ AccessIsCompatible(ComponentAccessOf(systems[p]),
                                               ComponentAccessOf(systems[q]))
                         /\ AccessIsCompatible(ResourceAccessOf(systems[p]),
                                               ResourceAccessOf(systems[q]))
           /\ SameSets(Buckets[b].joined_component_access, JoinAll(systems, 1, FALSE))
           /\ SameSets(Buckets[b].joined_resource_access, JoinAll(systems, 1, TRUE))
           /\ Buckets[b].joined_component_access.immutable
                \cap Buckets[b].joined_component_access.mutable = {}
           /\ Buckets[b].joined_resource_access.immutable
                \cap Buckets[b].joined_resource_access.mutable = {}

\* C4: two systems that run at the same time never hold access to the same
\* component id or resource id with one of the two accesses mutable.
C4_NoConflictingConcurrentAccess ==
    \A i, j \in 1 .. Len(task) :
        (i # j /\ task[i] = "running" /\ task[j] = "running")
            => /\ AccessIsCompatible(ComponentAccessOf(i), ComponentAccessOf(j))
               /\ AccessIsCompatible(ResourceAccessOf(i), ResourceAccessOf(j))

\* C5: when a system of a bucket has started, every system of every earlier
\* bucket of the run is done, whether the buckets run in parallel or not.
C5_BucketBarrier ==
    \A b1, b2 \in 1 .. Len(Buckets) :
        b1 < b2 =>
            \A p \in 1 .. Len(Buckets[b1].systems), q \in 1 .. Len(Buckets[b2].systems) :
                task[Buckets[b2].systems[q]] # "idle" => task[Buckets[b1].systems[p]] = "done"

\* a parallel bucket is done, a sequential bucket after it is at work
C5_Witness ==
    /\ exec.phase = "executing"
    /\ \E b1, b2 \in 1 .. Len(Buckets) :
          /\ b1 < b2
          /\ Buckets[b1].should_run_paralell
          /\ ~Buckets[b2].should_run_paralell
          /\ \A p \in 1 .. Len(Buckets[b1].systems) : task[Buckets[b1].systems[p]] = "done"
          /\ \E q \in 1 .. Len(Buckets[b2].systems) : task[Buckets[b2].systems[q]] = "running"

(***************************************************************************)
(* Events                                                                  *)
(***************************************************************************)
\* the reader was given the events 0, 1, 2, ... and nothing else
InSendOrder(log) == \A i \in 1 .. Len(log) : log[i] = i - 1

Increasing(log) == \A i, j \in 1 .. Len(log) : i < j => log[i] < log[j]

\* C9: with at most one update between consecutive reads (partial or full), the
\* reader is given every sent event once, in send order: what it was given is
\* a gapless prefix of the sends, and all of them after a full read.
C9_EveryEventOnceInOrder ==
    ~evh.twiceSinceRead =>
        /\ InSendOrder(readLog)
        /\ evh.full => Len(readLog) = queue.count

\* C9 (amended): no event is ever yielded twice or out of send order; with at
\* most one update between consecutive full reads (and before the first), no
\* event is skipped either.
C9_EveryEventOnceInOrderFullReads ==
    /\ Increasing(readLog)
    /\ ~evh.twiceSinceFull =>
          /\ InSendOrder(readLog)
          /\ evh.full => Len(readLog) = queue.count

\* all three events were read in order, by partial and full reads, across
\* updates that dropped events from the buffers
C9_Witness ==
    /\ ~evh.twiceSinceFull
    /\ evh.partial /\ evh.full
    /\ queue.old_count > 0
    /\ readLog = << 0, 1, 2 >>

\* what a reader with the cursor c would be given now
Readable(c) == Range(EventIteratorNew(queue, c).iter)

\* C10: an event that saw at most one update since its send is readable by a
\* fresh reader and by every reader that has not consumed it; after its second
\* update no reader is given it; after two updates without a send between
\* them a fresh reader is given nothing.
C10_EventLifetime ==
    /\ \A g \in 1 .. Len(evh.age) :
          /\ evh.age[g] <= 1 => \A c \in 0 .. (g - 1) : (g - 1) \in Readable(c)
          /\ evh.age[g] >= 2 => \A c \in 0 .. queue.count : (g - 1) \notin Readable(c)
    /\ evh.sinceSend >= 2 => EventIteratorNew(queue, 0).iter = << >>

\* one event past its second update, one past its first that the reader has
\* not consumed, one not updated yet
C10_Witness ==
    /\ Len(evh.age) = 3
    /\ evh.age[1] = 2 /\ evh.age[2] = 1 /\ evh.age[3] = 0
    /\ last_count <= 1
    /\ Readable(last_count) = {1, 2}

(***************************************************************************)
(* Hierarchies and dead handles                                            *)
(***************************************************************************)
\* the entities World::children lists for e
ChildrenOf(w, e) == Range(WorldChildren(w, e))

\* everything reachable from the set through the parent-to-children relation
RECURSIVE Descendants(_, _, _)
Descendants(w, set, n) ==
    IF n = 0 THEN set
    ELSE Descendants(w, set \cup UNION {ChildrenOf(w, e) : e \in set}, n - 1)

ReachableFrom(w, p) == Descendants(w, {p}, Cardinality(issued))

\* C14: when despawn(p) of an alive p has returned, p and every entity that was
\* reachable from p through children lists and alive before the call is dead,
\* and p has no children list.
C14_DespawnIsHierarchical ==
    (call.op = "despawn" /\ ~world.panicked /\ WorldIsAlive(call.world, call.entity))
        => /\ \A e \in ReachableFrom(call.world, call.entity) :
                EntitiesIsAlive(call.world, e) => ~EntitiesIsAlive(world, e)
           /\ SparseSetGet(world.children, call.entity.id) = None

\* despawn(p) returned where p had a child that had a child, all alive before
C14_Witness ==
    /\ call.op = "despawn" /\ ~world.panicked
    /\ \E c \in ChildrenOf(call.world, call.entity) :
          /\ c # call.entity
          /\ \E g \in ChildrenOf(call.world, c) :
                /\ g \notin {c, call.entity}
                /\ EntitiesIsAlive(call.world, g)
                /\ ~EntitiesIsAlive(world, g)
                /\ ~EntitiesIsAlive(world, c)

\* the last call was made with a handle that was not alive
DeadHandleCall ==
    \/ /\ call.op \in {"set_component", "remove_component", "remove_child",
                       "remove_children", "despawn"}
       /\ ~EntitiesIsAlive(call.world, call.entity)
    \/ /\ call.op = "add_child"
       /\ ~EntitiesIsAlive(call.world, call.entity) \/ ~EntitiesIsAlive(call.world, call.child)

\* C15: a mutator called with a dead handle neither faults nor changes the
\* World (versions, free list, signatures, groups, storage, children), and
\* get_component of a dead handle is None.
C15_DeadHandleIsNoOp ==
    /\ DeadHandleCall => world = call.world
    /\ \A e \in issued, t \in CompTypes :
          ~EntitiesIsAlive(world, e) => WorldGetComponent(world, e, t) = None

\* despawn was called with a dead handle whose id is held again by an alive
\* entity that stores a component
C15_Witness ==
    /\ call.op = "despawn"
    /\ ~EntitiesIsAlive(call.world, call.entity)
    /\ \E e \in issued :
          /\ e.id = call.entity.id
          /\ EntitiesIsAlive(world, e)
          /\ ComponentsGetComponent(world, e, "A") # None
    /\ world = call.world

(***************************************************************************)
(* Registration of component and resource types                            *)
(***************************************************************************)
ComponentIds(w) == {w.component_records[t] : t \in {x \in CompTypes : w.component_records[x] # NONE}}
ResourceIds(w) == {w.resource_ids[r] : r \in {x \in ResTypes : w.resource_ids[x] # NONE}}

\* the ids are 0 .. k-1, one per registered type
Consecutive(w) ==
    /\ ComponentIds(w) = 0 .. (RecordsLen(w) - 1)
    /\ ResourceIds(w) = 0 .. (Cardinality({r \in ResTypes : w.resource_ids[r] # NONE}) - 1)

\* C19: ids are handed out consecutively from 0 in the order of first
\* registration, one per type; a call never changes the id of a registered
\* type; a type registered by the call got the next id; registering a
\* registered type returns its id and changes nothing.
C19_IdsConsecutiveAndStable ==
    /\ Consecutive(world)
    /\ \A t \in CompTypes :
          /\ reg.world.component_records[t] # NONE
                => world.component_records[t] = reg.world.component_records[t]
          /\ (reg.world.component_records[t] = NONE /\ world.component_records[t] # NONE)
                => (t = reg.type /\ world.component_records[t] = RecordsLen(reg.world))
    /\ \A r \in ResTypes :
          /\ reg.world.resource_ids[r] # NONE => world.resource_ids[r] = reg.world.resource_ids[r]
          /\ (reg.world.resource_ids[r] = NONE /\ world.resource_ids[r] # NONE)
                => (r = reg.type /\ world.resource_ids[r] = Cardinality(ResourceIds(reg.world)))
    /\ reg.op = "register_component"
          => /\ reg.id = world.component_records[reg.type]
             /\ reg.world.component_records[reg.type] # NONE => world = reg.world
    /\ reg.op = "register_resource"
          => /\ reg.id = world.resource_ids[reg.type]
             /\ reg.world.resource_ids[reg.type] # NONE => world = reg.world

\* both component types and both resource types are registered, one component
\* type lazily by set_component, and the last call registered a registered type
C19_Witness ==
    /\ ~world.panicked
    /\ RecordsLen(world) = 2 /\ Cardinality(ResourceIds(world)) = 2
    /\ Len(world.component_on_remove) < Len(world.components)
    /\ reg.op = "register_resource"
    /\ reg.world.resource_ids[reg.type] # NONE

\* C20: the storage vector, the hook vector and the id counter have the same
\* length, and the hook stored at the index of a type's id is that type's hook.
C20_StorageAndHooksAligned ==
    /\ Len(world.components) = world.component_len
    /\ Len(world.component_on_remove) = world.component_len
    /\ \A t \in CompTypes :
          world.component_records[t] # NONE
              => world.component_on_remove[world.component_records[t] + 1] = t

(***************************************************************************)
(* Validation of a system's access sets                                    *)
(***************************************************************************)
\* no id claimed mutably twice, none claimed both immutably and mutably
AccessIsValid(access) ==
    /\ access.mutable_count = Cardinality(access.mutable)
    /\ access.immutable \cap access.mutable = {}

\* C16: a system whose parameters claim a component id or a resource id
\* mutably twice, or both immutably and mutably, is never initialized and
\* never placed in a bucket.
C16_InvalidSystemsRejected ==
    \A idx \in 1 .. Len(table) :
        (table[idx].is_init
            \/ \E b \in 1 .. Len(Buckets) : idx \in Range(Buckets[b].systems))
        => /\ AccessIsValid(ComponentAccessOf(idx))
           /\ AccessIsValid(ResourceAccessOf(idx))

(***************************************************************************)
(* Reserved entities                                                       *)
(***************************************************************************)
BundleTypeSet(bundle) == {bundle[i].type : i \in 1 .. Len(bundle)}

\* the Spawn command c materializes the handle that Commands::spawn returned
MaterializedAsReserved(c) ==
    /\ ~c.panicked
    /\ c.entity \in issued
    /\ c.after.alive
    /\ c.after.materialized
    /\ c.after.member = Some(c.entity)
    /\ c.after.signature = BundleTypeSet(c.bundle)
    /\ \A t \in CompTypes :
          c.after.values[t] = IF t \in BundleTypeSet(c.bundle)
                              THEN Some(c.bundle[CHOOSE i \in 1 .. Len(c.bundle) :
                                                    c.bundle[i].type = t].value)
                              ELSE None

\* the command d, which names the handle, has acted on the entity of the handle
ActsOnHandle(d) ==
    CASE d.kind = "SetComponent" ->
            d.before.alive =>
                /\ ~d.panicked
                /\ d.after.values[d.bundle[1].type] = Some(d.bundle[1].value)
                /\ d.after.signature = d.before.signature \cup {d.bundle[1].type}
      [] d.kind = "AddChild" ->
            (d.before.alive /\ d.child_alive /\ d.entity # d.child) =>
                /\ ~d.panicked
                /\ \E i \in 1 .. Len(d.after.children) : d.after.children[i] = d.child
      [] d.kind = "Despawn" ->
            \* Components::despawn aborts on a component without on_remove hook;
            \* the despawn was dispatched on the entity then, too
            (d.before.alive /\ ~d.panicked) =>
                /\ ~d.after.alive
                /\ ~d.after.materialized
      [] OTHER -> TRUE

\* C17: the entity that replay materializes for a Spawn command has the id and
\* version of the handle that Commands::spawn returned, is alive and carries
\* exactly the bundle's components; a later set_component, add_child or despawn
\* of the same buffer that names the handle acts on that entity
C17_ReservedHandleIsMaterialized ==
    rep.replayed =>
        \A i \in DOMAIN rep.trace :
            LET c == rep.trace[i]
            IN (c.kind = "Spawn" /\ ~c.panicked_before) =>
                /\ MaterializedAsReserved(c)
                /\ \A j \in DOMAIN rep.trace :
                      LET d == rep.trace[j]
                      IN (d.pos > c.pos /\ ~d.panicked_before
                            /\ (d.entity = c.entity \/ d.child = c.entity))
                         => ActsOnHandle(d)

\* a replayed buffer that spawned a bundle of two components, then set a
\* component of the handle and then despawned the handle
C17_Witness ==
    /\ rep.replayed
    /\ ~world.panicked
    /\ \E i \in DOMAIN rep.trace, j \in DOMAIN rep.trace, k \in DOMAIN rep.trace :
          LET c == rep.trace[i]
              d == rep.trace[j]
              x == rep.trace[k]
          IN /\ c.kind = "Spawn" /\ Len(c.bundle) = 2
             /\ d.kind = "SetComponent" /\ d.entity = c.entity /\ d.pos > c.pos
             /\ d.bundle[1].value # c.after.values[d.bundle[1].type][1]
             /\ x.kind = "Despawn" /\ x.entity = c.entity /\ x.pos > d.pos
             /\ x.before.alive

(***************************************************************************)
(* Concurrent reservations                                                 *)
(***************************************************************************)
\* C18: the entities that the systems of one bucket have obtained from
\* Entities::spawn are pairwise distinct, whatever the order of the atomic
\* counter updates, and none has the id of an entity that is alive
C18_ReservationsDistinct ==
    (scope.phase = "bucket" /\ ~entities.panicked) =>
        /\ \A i \in 1 .. Len(scope.returned), j \in 1 .. Len(scope.returned) :
              i # j => scope.returned[i].entity # scope.returned[j].entity
        /\ \A i \in 1 .. Len(scope.returned), e \in MaterializedEntities(entities) :
              WorldIsAlive(entities, e) => scope.returned[i].entity.id # e.id

\* two systems of one bucket hold an entity each, one from a free slot (its
\* version was bumped by a despawn) and one fresh, while another entity is alive
C18_Witness ==
    /\ scope.phase = "bucket"
    /\ Len(scope.returned) = 2
    /\ scope.returned[1].task # scope.returned[2].task
    /\ \E i \in 1 .. 2 : scope.returned[i].entity.version > 0
    /\ \E i \in 1 .. 2 : scope.returned[i].entity.version = 0
    /\ \E e \in MaterializedEntities(entities) : WorldIsAlive(entities, e)

(***************************************************************************)
(* Chains of schedule runs and of signals                                  *)
(***************************************************************************)
\* the calls of every system of a schedule, and of one observer
CallsOfSchedule(w, label) ==
    UNION {{w.schedules[label][i].script[j] : j \in 1 .. Len(w.schedules[label][i].script)} :
              i \in 1 .. Len(w.schedules[label])}

CallsOfObserver(w, system_index) ==
    {w.observers.systems[system_index].script[j] :
        j \in 1 .. Len(w.observers.systems[system_index].script)}

\* the labels whose schedule runs when the schedules of a set of labels run
RECURSIVE RunClosure(_, _, _)
RunClosure(w, labels, n) ==
    IF n = 0 THEN labels
    ELSE RunClosure(w,
            labels \cup {c.arg : c \in {x \in UNION {CallsOfSchedule(w, l) : l \in labels} :
                                            x.kind = "run_schedule" /\ x.arg \in DOMAIN w.schedules}},
            n - 1)

\* the observers that are executed when the events of a set are signalled
ObserversOf(w, events) ==
    {i \in 1 .. Len(w.observers.systems) :
        w.observers.systems[i].event \in events /\ w.observers.systems[i].alive}

RECURSIVE SignalClosure(_, _, _)
SignalClosure(w, events, n) ==
    IF n = 0 THEN events
    ELSE SignalClosure(w,
            events \cup {c.arg : c \in {x \in UNION {CallsOfObserver(w, i) : i \in ObserversOf(w, events)} :
                                            x.kind = "send_signal"}},
            n - 1)

\* what the last call has appended to the histories
RanByCall == SubSeq(app.ran, Len(prog.world.ran) + 1, Len(app.ran))
ExecutedByCall ==
    SubSeq(app.observers.executed, Len(prog.world.observers.executed) + 1,
           Len(app.observers.executed))

\* C13: when run_schedule(A) returns, the schedule of every label of the chain
\* has run once, the resource of every insert_resource command that a system
\* of the chain enqueued is present, and the command buffer is empty; when
\* send_signal returns, the same holds for the chain of observers
C13_ChainReplayed ==
    ~app.panicked =>
        /\ (prog.op = "run_schedule" /\ prog.arg \in DOMAIN prog.world.schedules) =>
              LET chain == RunClosure(app, {prog.arg}, MaxChain)
              IN /\ app.command_buffer = << >>
                 /\ \A l \in chain :
                       /\ Cardinality({i \in 1 .. Len(RanByCall) : RanByCall[i] = l}) = 1
                       /\ \A c \in CallsOfSchedule(app, l) :
                             c.kind = "insert_resource" => WorldGetResource(app, c.arg) # None
        /\ prog.op = "send_signal" =>
              LET events == SignalClosure(app, {ChainEvents[prog.arg]}, MaxChain)
              IN /\ app.command_buffer = << >>
                 /\ \A i \in ObserversOf(app, events) :
                       /\ Cardinality({j \in 1 .. Len(ExecutedByCall) :
                                          ExecutedByCall[j].system_index = i}) = 1
                       /\ \A c \in CallsOfObserver(app, i) :
                             c.kind = "insert_resource" => WorldGetResource(app, c.arg) # None

\* run_schedule(A) has returned after a chain over every label, in which a
\* system enqueued its insert_resource after the run_schedule of the next label
C13_Witness ==
    /\ ~app.panicked
    /\ prog.op = "run_schedule"
    /\ prog.arg = 1
    /\ Len(RanByCall) = MaxChain
    /\ app.schedules[1][1].script[1].kind = "run_schedule"
    /\ \A k \in Labels : WorldGetResource(app, Success[k]) # None
    /\ \A k \in Labels : WorldGetResource(prog.world, Success[k]) = None

(***************************************************************************)
(* Signals and observers                                                   *)
(***************************************************************************)
ExecutionsOf(executed, system_index) ==
    Cardinality({j \in 1 .. Len(executed) : executed[j].system_index = system_index})

\* C12: a send_signal of event type E executes every observer of E whose id is
\* alive exactly once, with the signal that was sent, and executes no observer
\* of another event type and no dead observer; over N signals to K live
\* observers the number of executions is N * K
C12_EveryLiveObserverOnce ==
    ~app.panicked =>
        /\ Len(app.observers.executed) = prog.due
        /\ prog.op = "send_signal" =>
              /\ \A i \in 1 .. Len(app.observers.systems) :
                    ExecutionsOf(ExecutedByCall, i) =
                        IF i \in LiveObservers(prog.world, ChainEvents[prog.arg]) THEN 1 ELSE 0
              /\ \A j \in 1 .. Len(ExecutedByCall) :
                    ExecutedByCall[j].input = Len(prog.world.observers.sent)

\* the third Tick signal has been sent to two live observers of Tick which
\* write the same resource
C12_Witness ==
    /\ ~app.panicked
    /\ prog.op = "send_signal"
    /\ ChainEvents[prog.arg] = Tick
    /\ Cardinality(LiveObservers(prog.world, Tick)) = 2
    /\ \A i \in LiveObservers(prog.world, Tick) :
          "R" \in app.observers.parallel_exeuction_buckets[app.observers.systems[i].bucket].resource_access.mutable
    /\ Len(app.observers.sent) = 3
    /\ Len(app.observers.executed) = 6

(***************************************************************************)
(* Change detection                                                        *)
(***************************************************************************)
\* the Changed<R> events sent so far, and the Changed<R> signals sent so far
ChangedEvents(w) ==
    LET q == WorldGetResource(w, EventQueueOf("Changed<R>"))
    IN IF q = None THEN 0 ELSE q[1].count

ChangedSignals(w) ==
    Cardinality({j \in 1 .. Len(w.observers.sent) : w.observers.sent[j] = "Changed<R>"})

\* the systems that dereferenced their ResMut<R> mutably during the last call
Writers ==
    {app.derefs_mut[j].system : j \in Len(prog.world.derefs_mut) + 1 .. Len(app.derefs_mut)}

\* what the last call has emitted
EmittedBy(n) ==
    /\ ChangedEvents(app) = ChangedEvents(prog.world) + n
    /\ ChangedSignals(app) = ChangedSignals(prog.world) + n

\* C11: a schedule run emits one Changed<R> event and one signal for every
\* system that dereferenced its ResMut<R> mutably during that run, none for a
\* system that only read, and leaves every flag reset; the drop of a
\* WorldResMut<R> emits once iff the handle was dereferenced mutably; nothing
\* else emits
C11_ChangedIffDerefMut ==
    ~app.panicked =>
        /\ prog.op = "run_schedule" =>
              /\ EmittedBy(Cardinality(Writers))
              /\ \A l \in DOMAIN app.schedules : \A i \in 1 .. Len(app.schedules[l]) :
                    ~app.schedules[l][i].was_modified
        /\ prog.op = "drop" => EmittedBy(IF prog.handle.derefs_mut > 0 THEN 1 ELSE 0)
        /\ prog.op \notin {"run_schedule", "drop"} => EmittedBy(0)

\* a run in which one system wrote and a system that wrote in the run before
\* only read
C11_Witness ==
    /\ ~app.panicked
    /\ prog.op = "run_schedule"
    /\ Cardinality(Writers) = 1
    /\ \E j \in 1 .. Len(prog.world.derefs_mut) : prog.world.derefs_mut[j].system \notin Writers
    /\ ChangedEvents(app) = 3
    /\ ChangedSignals(app) = 3

(***************************************************************************)
(* The limit of the component registry                                     *)
(***************************************************************************)
\* the call registered a type that was not registered before, or tried to
RegistersNewType ==
    /\ reg.op \in {"register_component", "set_component"}
    /\ reg.world.component_records[reg.type] = NONE

\* C21: a type that is registered while fewer than MAX_COMPONENTS types are
\* registered gets the next id, by register_component and by the lazy
\* registration of set_component; the registration of a further type aborts;
\* every id handed out is below MAX_COMPONENTS
C21_RegistryLimit ==
    /\ \A t \in DOMAIN world.component_records :
          world.component_records[t] # NONE => world.component_records[t] \in 0 .. (MAX_COMPONENTS - 1)
    /\ RecordsLen(world) <= MAX_COMPONENTS
    /\ RegistersNewType =>
          IF RecordsLen(reg.world) < MAX_COMPONENTS
          THEN /\ ~world.panicked
               /\ world.component_records[reg.type] = RecordsLen(reg.world)
          ELSE world.panicked

\* the lazy registration of the 129th type has aborted; the 128th type had
\* got the id 127
C21_Witness ==
    /\ world.panicked
    /\ reg.op = "set_component"
    /\ reg.world.component_records[reg.type] = NONE
    /\ RecordsLen(reg.world) = MAX_COMPONENTS
    /\ \E t \in EdgeTypes : reg.world.component_records[t] = MAX_COMPONENTS - 1

(***************************************************************************)
(* Hooks of resources                                                      *)
(***************************************************************************)
\* the hook calls made during the last call
HooksByCall == SubSeq(app.hooks, Len(prog.world.hooks) + 1, Len(app.hooks))

\* C22: insert_resource calls on_add of the new value once and, when a value
\* was present, on_remove of that value once, and returns it; remove_resource
\* calls on_remove of the removed value once and returns it, and does nothing
\* when there is no value; the commands of the hooks have been replayed when
\* the call returns
C22_ResourceHooks ==
    LET prior == WorldGetResource(prog.world, "Spawner")
    IN ~app.panicked =>
        /\ prog.op = "insert_resource" =>
              /\ HooksByCall =
                    << [hook |-> "on_add", value |-> prog.arg] >>
                    \o (IF prior = None THEN << >>
                        ELSE << [hook |-> "on_remove", value |-> prior[1]] >>)
              /\ prog.ret = prior
              /\ WorldGetResource(app, "Spawner") = Some(prog.arg)
              /\ WorldGetResource(app, "Added") = Some(prog.arg)
              /\ prior # None => WorldGetResource(app, "Removed") = prior
              /\ app.command_buffer = << >>
        /\ (prog.op = "remove_resource" /\ prior # None) =>
              /\ HooksByCall = << [hook |-> "on_remove", value |-> prior[1]] >>
              /\ prog.ret = prior
              /\ WorldGetResource(app, "Spawner") = None
              /\ WorldGetResource(app, "Removed") = prior
              /\ app.command_buffer = << >>
        /\ (prog.op = "remove_resource" /\ prior = None) =>
              /\ app = prog.world
              /\ prog.ret = None

\* a value was inserted over a different one, and an on_remove had been called before
C22_Witness ==
    /\ ~app.panicked
    /\ prog.op = "insert_resource"
    /\ WorldGetResource(prog.world, "Spawner") # None
    /\ WorldGetResource(prog.world, "Spawner") # Some(prog.arg)
    /\ \E j \in 1 .. Len(prog.world.hooks) : prog.world.hooks[j].hook = "on_remove"
    /\ Len(HooksByCall) = 2

(***************************************************************************)
(* Properties of SparseSet<T> and BlobSparseSet                            *)
(***************************************************************************)
\* the keys a map holds
LiveKeys(map) == {k \in Ids : map[k] # None}

\* C23: after every sequence of insert, remove, entry-insert, entry-remove
\* and clear on a SparseSet<T> or a BlobSparseSet, dense and mapping have the
\* same length; every live key has a sparse index below the length of dense,
\* and mapping at that index is the key; for every dense index i the sparse
\* index of mapping[i] is i; and every key that is not live maps to NONE.
C23_SparseSetConsistent ==
    LET ss == set_under_test.set
    IN /\ Len(ss.dense) = Len(ss.mapping)
       /\ \A k \in LiveKeys(finite_map.map) :
              /\ ss.sparse_array[k] # NONE
              /\ ss.sparse_array[k] < Len(ss.dense)
              /\ ss.mapping[ss.sparse_array[k] + 1] = k
       /\ \A i \in 1 .. Len(ss.mapping) : ss.sparse_array[ss.mapping[i]] = i - 1
       /\ \A k \in Ids \ LiveKeys(finite_map.map) : ss.sparse_array[k] = NONE

\* an entry-remove has just taken a key out of the middle of dense while two
\* other keys stay
C23_Witness ==
    /\ finite_map.call.op = "entry_remove"
    /\ finite_map.set_before.sparse_array[finite_map.call.id] + 1 < Len(finite_map.set_before.dense)
    /\ Cardinality(LiveKeys(finite_map.map)) >= 2

\* C24: a SparseSet<T> and a BlobSparseSet behave as a finite map from key to
\* value: an insert on a present key returns the prior value and on an absent
\* key None, a remove that returns a value returns the stored one (None when
\* the key is absent), and after every call get(k) is, for every key, the
\* value last inserted and not removed since; a swap-remove, also of the key
\* stored last in dense, leaves the value of every other key as it was.
C24_FiniteMap ==
    LET last_call == finite_map.call
    IN /\ \A k \in Ids : SparseSetGet(set_under_test.set, k) = finite_map.map[k]
       /\ last_call.op = "insert" => last_call.ret = finite_map.before[last_call.id]
       /\ (last_call.op = "remove_as" \/ (last_call.op \in {"remove", "entry_remove"} /\ ~IsBlob))
              => last_call.ret = finite_map.before[last_call.id]
       /\ last_call.op \in {"remove", "remove_as", "entry_remove"}
              => \A k \in Ids \ {last_call.id} :
                     SparseSetGet(set_under_test.set, k) = SparseSetGet(finite_map.set_before, k)

\* a remove_as has just returned the value of a key that was not the last of
\* dense, and another key keeps a different value
C24_Witness ==
    /\ finite_map.call.op = "remove_as"
    /\ finite_map.call.ret # None
    /\ finite_map.set_before.sparse_array[finite_map.call.id] + 1 < Len(finite_map.set_before.dense)
    /\ \E k \in LiveKeys(finite_map.map) : finite_map.map[k] # finite_map.call.ret

\* the key stored last in dense has just been removed while another key stays
C24_LastRemoved ==
    /\ finite_map.call.op \in {"remove", "remove_as", "entry_remove"}
    /\ finite_map.set_before.sparse_array[finite_map.call.id] + 1 = Len(finite_map.set_before.dense)
    /\ LiveKeys(finite_map.map) # {}

(***************************************************************************)
(* Properties of the groups                                                *)
(***************************************************************************)
\* the signatures whose group holds the entity
GroupsOf(w, e) == {s \in DOMAIN w.groups : SparseSetGet(w.groups[s], e.id) = Some(e)}

\* C25: after every sequence of spawn, set_component, remove_component and
\* despawn, every alive materialized entity is in exactly one group, the one
\* keyed by its signature in entity_signatures, and in no other; a despawned
\* entity is in no group; and no call takes a group out of the group map, so
\* a group that becomes empty stays.
C25_GroupMembership ==
    /\ [](~world.panicked =>
            /\ \A e \in AliveEntities : GroupsOf(world, e) = {SignatureOf(e)}
            /\ \A e \in despawned : e \notin MaterializedEntities(world))
    /\ [][DOMAIN world.groups \subseteq DOMAIN world'.groups]_vars

\* a despawn has just emptied the group of an entity with components, and
\* another entity is alive in another group
C25_Witness ==
    /\ ~world.panicked
    /\ last.op = "despawn" /\ last.alive
    /\ last.sig # None /\ last.sig[1] # {}
    /\ last.sig[1] \in DOMAIN world.groups
    /\ world.groups[last.sig[1]].dense = << >>
    /\ \E e \in AliveEntities : SignatureOf(e) # last.sig[1]

(***************************************************************************)
(* Spawning and reading back                                               *)
(***************************************************************************)
\* C26: for every entity spawned with a bundle, get_component returns for
\* each component of the bundle the value that was supplied, and keeps
\* returning it while spawns, set_component calls and despawns target other
\* entities only.
C26_SpawnReadRoundTrip ==
    ~world.panicked =>
        \A e \in DOMAIN supplied :
            \A i \in 1 .. Len(supplied[e]) :
                WorldGetComponent(world, e, supplied[e][i].type) = Some(supplied[e][i].value)

\* an entity spawned with two components is read back after a despawn of an
\* entity spawned before it, which has swap-removed that entity from the
\* storages the two share
C26_Witness ==
    /\ ~world.panicked
    /\ last.op = "despawn" /\ last.alive /\ last.sig # None /\ last.sig[1] # {}
    /\ \E e \in DOMAIN supplied :
          /\ Len(supplied[e]) = 2
          /\ e.id > last.entity.id
          /\ supplied[e][1].value # supplied[e][2].value

(***************************************************************************)
(* Order and dispatch of the buckets of a schedule                         *)
(***************************************************************************)
\* the systems of the schedule; a system is named by its index in the table,
\* which is its place in the order of the add_system calls
Scheduled == {schedule.system_records[i].system : i \in 1 .. Len(schedule.system_records)}

\* the bucket that holds the system
BucketOf(idx) ==
    CHOOSE b \in 1 .. Len(Buckets) : \E p \in 1 .. Len(Buckets[b].systems) : Buckets[b].systems[p] = idx

\* the system of the bucket that was added first
FirstAdded(b) ==
    CHOOSE idx \in Scheduled : /\ BucketOf(idx) = b
                               /\ \A other \in Scheduled : BucketOf(other) = b => idx <= other

\* C27: within one schedule the systems of a bucket that runs sequentially
\* execute in the order of their add_system calls, and the buckets execute in
\* the order in which the first system of each was added: a system has
\* started only if every system added before it into its bucket is done, and
\* only if every bucket whose first system was added earlier is done.
C27_AddOrderKept ==
    (exec.phase = "executing" /\ ~world.panicked) =>
        \A i \in Scheduled, j \in Scheduled :
            task[j] # "idle" =>
                /\ (i < j /\ BucketOf(i) = BucketOf(j)
                        /\ ~Buckets[BucketOf(i)].should_run_paralell)
                       => task[i] = "done"
                /\ (BucketOf(i) # BucketOf(j)
                        /\ FirstAdded(BucketOf(i)) < FirstAdded(BucketOf(j)))
                       => task[i] = "done"

\* C28: at every run of a schedule a bucket is dispatched on the thread pool
\* if and only if it holds more than PARALLEL_EXECUTION_THRESHOLD systems at
\* that run, also when dead systems were pruned from it before.
C28_ParallelIffAboveThreshold ==
    (exec.phase = "executing" /\ ~world.panicked) =>
        \A b \in 1 .. Len(Buckets) :
            Buckets[b].should_run_paralell
                <=> (Len(Buckets[b].systems) > PARALLEL_EXECUTION_THRESHOLD)

(***************************************************************************)
(* The World while the systems of a bucket execute                         *)
(***************************************************************************)
\* the structural state of a World
Structural(w) ==
    [entity_signatures |-> w.entity_signatures, groups |-> w.groups,
     components |-> w.components, entity_versions |-> w.entity_versions,
     free_entity_ids |-> w.free_entity_ids, children |-> w.children,
     command_buffer |-> w.command_buffer]

IsPrefix(s, t) == Len(s) <= Len(t) /\ \A i \in 1 .. Len(s) : s[i] = t[i]

\* the entities a system has put into its own buffer, in order
BufferOf(returned, t) ==
    LET Mine(x) == x.task = t
    IN SelectSeq(returned, Mine)

\* C30: while the systems of a bucket execute, the structural state of the
\* World does not change: entity signatures, groups, the component sparse
\* sets, entity versions, the free list and the children lists stay as they
\* are; a Commands call of a running system only appends to the buffer of
\* that system and advances the two atomic reservation counters.
C30_BucketFrame ==
    [][scope'.phase = "bucket" =>
          /\ Structural(entities') = Structural(entities)
          /\ entities'.claimed_free_entities >= entities.claimed_free_entities
          /\ entities'.highest_free_entity_id >= entities.highest_free_entity_id
          /\ scope.phase = "bucket" =>
                /\ \A t \in Tasks :
                      /\ IsPrefix(BufferOf(scope.returned, t), BufferOf(scope'.returned, t))
                      /\ BufferOf(scope.returned, t) # BufferOf(scope'.returned, t)
                            => scope.task[t].pc # "done" /\ scope'.task[t].pc = "done"]_vars

\* two systems of a bucket have reserved entities, one of them a freed id,
\* over a World that holds a materialized entity
C30_Witness ==
    /\ scope.phase = "bucket"
    /\ Len(scope.returned) = 2
    /\ entities.claimed_free_entities >= 1
    /\ Len(entities.free_entity_ids) >= 1
    /\ MaterializedEntities(entities) # {}

(***************************************************************************)
(* Commands of one bucket and the systems of the next                      *)
(***************************************************************************)
\* C29: after each bucket of a schedule run the command buffers of its
\* systems are replayed before a system of the next bucket starts: a system
\* of a later bucket is given, by its query, every entity that a system of an
\* earlier bucket has spawned through Commands in the same run.
C29_NextBucketObserves ==
    ~world.panicked =>
        \A i \in Scheduled, j \in Scheduled :
            (BucketOf(i) < BucketOf(j) /\ table[j].seen # None) =>
                \A k \in 1 .. Len(table[i].reserved) : table[i].reserved[k] \in table[j].seen[1]

(***************************************************************************)
(* Dead systems and the pruning at the end of a run                        *)
(***************************************************************************)
\* Schedule::execute has returned and Schedule::run ends
RunEnds == exec.phase = "executing" /\ exec'.phase = "idle" /\ ~world'.panicked

\* the members of bucket b, as a set
MembersOf(b) == {Buckets[b].systems[p] : p \in 1 .. Len(Buckets[b].systems)}

\* no record and no bucket member is a dead system
NoDeadSystem ==
    /\ \A idx \in Scheduled : table[idx].alive
    /\ \A b \in 1 .. Len(Buckets) : \A idx \in MembersOf(b) : table[idx].alive

\* the run removed dead systems from the records and the buckets and kept
\* every live system in its bucket
DeadRemovedLiveKept ==
    RunEnds =>
        /\ NoDeadSystem'
        /\ \A idx \in Scheduled :
              table[idx].alive => (idx \in Scheduled' /\ BucketOf(idx)' = BucketOf(idx))
        /\ (\A idx \in Scheduled : ~table[idx].alive) => schedule'.system_records = << >>

\* the joined accesses of every bucket that lost a system are the joins of
\* the accesses of the systems that stay
AffectedBucketsRejoined ==
    RunEnds =>
        \A b \in 1 .. Len(Buckets) :
            Len(Buckets[b].systems') < Len(Buckets[b].systems) =>
                /\ SameSets(Buckets[b].joined_component_access, JoinAll(Buckets[b].systems, 1, FALSE))'
                /\ SameSets(Buckets[b].joined_resource_access, JoinAll(Buckets[b].systems, 1, TRUE))'

\* C31: after a schedule run in which systems were found dead, each dead
\* system is gone from the system records and from its bucket, every live
\* system is still in its bucket, and the joined component and resource
\* access of each bucket that lost a system is the join of the accesses of
\* the systems that remain; a schedule whose systems were all dead is empty.
C31_DeadSystemsPruned == [][DeadRemovedLiveKept /\ AffectedBucketsRejoined]_vars

\* C36: a system whose SystemId was marked dead before Schedule::run is
\* called is not executed during that run: every system that has started in
\* the run is alive.
C36_DeadNotExecuted ==
    ~world.panicked => \A idx \in 1 .. Len(task) : task[idx] # "idle" => table[idx].alive

\* C37: after any sequence of add_system, run and remove_system_at the
\* bucket_index of every system record names an existing bucket whose list
\* holds that system, every bucket member belongs to exactly one record, and
\* no system is in two buckets or twice in one.
C37_RecordsAndBucketsAgree ==
    ~world.panicked =>
        LET records == schedule.system_records
        IN /\ \A i \in 1 .. Len(records) :
                 /\ records[i].bucket_index + 1 \in 1 .. Len(Buckets)
                 /\ records[i].system \in MembersOf(records[i].bucket_index + 1)
           /\ \A b \in 1 .. Len(Buckets) : \A p \in 1 .. Len(Buckets[b].systems) :
                 Cardinality({i \in 1 .. Len(records) :
                                 records[i].system = Buckets[b].systems[p]}) = 1
           /\ \A b1, b2 \in 1 .. Len(Buckets) :
                 \A p1 \in 1 .. Len(Buckets[b1].systems), p2 \in 1 .. Len(Buckets[b2].systems) :
                     << b1, p1 >> # << b2, p2 >> => Buckets[b1].systems[p1] # Buckets[b2].systems[p2]

\* a run has pruned a dead system out of a bucket in which two systems stay
C37_Witness ==
    /\ ~world.panicked
    /\ exec.phase = "idle"
    /\ schedule.init_queue = << >>
    /\ \E idx \in 1 .. Len(table) : table[idx].is_init /\ ~table[idx].alive /\ idx \notin Scheduled
    /\ \E b \in 1 .. Len(Buckets) : Len(Buckets[b].systems) >= 2

(***************************************************************************)
(* Executions of the systems of a schedule, run by run                     *)
(***************************************************************************)
\* every bucket of the run is done
BucketsDone == exec.phase = "executing" /\ exec.bucket = Len(Buckets)

\* C35: every system of a schedule is executed exactly once per run; a
\* system added with add_system before a run is initialized at the start of
\* that run and executes in it, and a system added through
\* Commands::add_system while the schedule runs executes first in the next
\* run: never more than once in a run, once when the buckets are done, and
\* first in the run that started after the system was added.
C35_OncePerRun ==
    ~world.panicked =>
        /\ \A idx \in 1 .. Len(table) :
              /\ runs.count[idx] <= 1
              /\ runs.first[idx] # 0 => runs.first[idx] = runs.added[idx] + 1
        /\ BucketsDone =>
              /\ \A idx \in Scheduled : runs.count[idx] = 1
              /\ \A idx \in 1 .. Len(table) :
                    runs.added[idx] < runs.n =>
                        /\ runs.first[idx] = runs.added[idx] + 1
                        /\ (table[idx].alive => idx \in Scheduled)

\* a system added through Commands in the first run has executed in the
\* second run, next to the system that added it
C35_Witness ==
    /\ ~world.panicked
    /\ BucketsDone
    /\ runs.n = 2
    /\ \E idx \in 1 .. Len(table) :
          /\ runs.via[idx] = "commands"
          /\ runs.added[idx] = 1
          /\ runs.first[idx] = 2
          /\ runs.count[idx] = 1
    /\ \E idx \in 1 .. Len(table) :
          runs.via[idx] = "add_system" /\ runs.first[idx] = 1 /\ runs.count[idx] = 1

(***************************************************************************)
(* The World a schedule is bound to                                        *)
(***************************************************************************)
\* C34: a schedule remembers the World of its first run, and a run of it in
\* a World with another WorldId is rejected and executes no system: every run
\* that got past the assertion was made in the World of the first run.
C34_RunsInOneWorld ==
    \A k \in 1 .. Len(link.ran) : link.ran[k].world = link.ran[1].world

(***************************************************************************)
(* Despawn along a cycle of the parent-to-children relation                *)
(***************************************************************************)
\* the entity is on a cycle of the children lists of w
OnCycle(w, e) == \E c \in ChildrenOf(w, e) : c # e /\ e \in ReachableFrom(w, c)

\* C38: World::despawn of an alive entity, when it returns, leaves an empty
\* command buffer, also when the children lists form a cycle through it
\* (the recursion of the replay ends at the dead handle), and every
\* entity that was alive and reachable is despawned once: its stored version
\* is one above that of its handle and its id is in the free list once.
C38_CyclicDespawn ==
    (call.op = "despawn" /\ ~world.panicked /\ WorldIsAlive(call.world, call.entity)) =>
        /\ world.command_buffer = << >>
        /\ \A e \in ReachableFrom(call.world, call.entity) :
              EntitiesIsAlive(call.world, e) =>
                  /\ world.entity_versions[e.id + 1] = e.version + 1
                  /\ Count(world.free_entity_ids, e.id) = 1

\* despawn(a) returned where b was a child of a and a a child of b, both
\* alive before the call
C38_Witness ==
    /\ call.op = "despawn" /\ ~world.panicked
    /\ WorldIsAlive(call.world, call.entity)
    /\ OnCycle(call.world, call.entity)
    /\ \A e \in ReachableFrom(call.world, call.entity) :
          EntitiesIsAlive(call.world, e) /\ ~EntitiesIsAlive(world, e)

(***************************************************************************)
(* Ids of alive and reserved entities, and the free list                   *)
(***************************************************************************)
\* the entities that are in use: materialized and alive, or returned by
\* Entities::spawn to a system of the bucket that is executing
AliveMaterialized == {e \in MaterializedEntities(entities) : WorldIsAlive(entities, e)}
ReservedInBucket ==
    IF scope.phase = "bucket"
    THEN {scope.returned[i].entity : i \in 1 .. Len(scope.returned)} ELSE {}

\* the slots of the free list that no Entities::spawn has claimed
Unclaimed ==
    1 .. (Len(entities.free_entity_ids)
            - Min(entities.claimed_free_entities, Len(entities.free_entity_ids)))

\* C39: at every point of every interleaving of World::spawn, reservations
\* by Commands::spawn, despawn and replay, no two entities in use share an
\* id, no Entities::spawn has returned what another one returned or the id
\* of an alive entity, the free list holds no id twice, and its unclaimed
\* slots (all of them after a despawn) hold no id of an entity in use.
C39_IdsNotShared ==
    ~entities.panicked =>
        LET free == entities.free_entity_ids
        IN /\ \A e1 \in AliveMaterialized \cup ReservedInBucket,
                 e2 \in AliveMaterialized \cup ReservedInBucket : e1.id = e2.id => e1 = e2
           /\ scope.phase = "bucket" =>
                 /\ \A i, j \in 1 .. Len(scope.returned) :
                       i # j => scope.returned[i].entity.id # scope.returned[j].entity.id
                 /\ \A i \in 1 .. Len(scope.returned) :
                       scope.returned[i].entity \notin AliveMaterialized
           /\ \A i, j \in 1 .. Len(free) : i # j => free[i] # free[j]
           /\ \A i \in Unclaimed :
                 \A e \in AliveMaterialized \cup ReservedInBucket : e.id # free[i]

\* a system holds an entity taken from a claimed free slot while another
\* entity is alive
C39_Witness ==
    /\ scope.phase = "bucket"
    /\ ~entities.panicked
    /\ \E i \in 1 .. Len(scope.returned) : scope.returned[i].entity.version > 0
    /\ AliveMaterialized # {}
    /\ entities.claimed_free_entities > 0

(***************************************************************************)
(* The 16-bit counters of the entity allocator                             *)
(***************************************************************************)
\* C40: the counters of the allocator never wrap silently: a spawn never
\* returns an id for which an issued handle is alive, and a despawn that
\* returns never leaves the id with a stored version that a handle issued
\* earlier for the id carries
C40_NoSilentWrap ==
    /\ alloc.last.op = "spawn" =>
           ~InUse(alloc.last.before, alloc.last.entity.id)
    /\ (alloc.last.op = "despawn" /\ ~alloc.panicked) =>
           ~InUse(alloc, alloc.last.entity.id)

\* the first half alone: the id counter
C40_SpawnNeverReissues ==
    alloc.last.op = "spawn" => ~InUse(alloc.last.before, alloc.last.entity.id)

\* the second half alone: the version counter
C40_DespawnNeverRevives ==
    (alloc.last.op = "despawn" /\ ~alloc.panicked) => ~InUse(alloc, alloc.last.entity.id)

(***************************************************************************)
(* The hooks of components                                                 *)
(***************************************************************************)
\* the hooks called by the last call of the program
ComponentHooksByCall == SubSeq(app.hooks, Len(prog.world.hooks) + 1, Len(app.hooks))

\* how often the last call called a hook of a component type
HookCalls(hook, t) ==
    Cardinality({j \in 1 .. Len(ComponentHooksByCall) :
                    /\ ComponentHooksByCall[j].hook = hook
                    /\ ComponentHooksByCall[j].type = t})

\* the signature of the entity before the last call, and the types of its bits
SignatureBefore ==
    LET found == SparseSetGet(prog.world.entity_signatures, prog.arg.entity.id)
    IN IF found = None THEN {} ELSE found[1]

TypesBefore ==
    {t \in HookedCompTypes : prog.world.component_records[t] # NONE
                              /\ prog.world.component_records[t] \in SignatureBefore}

InBundle(t) == Cardinality({i \in 1 .. Len(prog.arg.bundle) : prog.arg.bundle[i].type = t})

\* a despawn of an alive entity that returned
DespawnedAlive ==
    prog.op = "despawn" /\ ~app.panicked /\ WorldIsAlive(prog.world, prog.arg.entity)

\* despawn calls on_remove once for each component of the signature, and no
\* other hook
DespawnRemovesOnce ==
    DespawnedAlive =>
        \A t \in HookedCompTypes :
            /\ HookCalls("on_remove", t) = (IF t \in TypesBefore THEN 1 ELSE 0)
            /\ HookCalls("on_add", t) = 0

\* every storage has its own hook: no type was registered by set_component
HooksAligned(w) ==
    /\ Len(w.component_on_remove) = Len(w.components)
    /\ \A t \in HookedCompTypes :
          w.component_records[t] # NONE => w.component_on_remove[w.component_records[t] + 1] = t

\* the count of on_remove calls, in a World whose types were all registered
\* with their hook
DespawnRemovesOnceWhenAligned ==
    (DespawnedAlive /\ HooksAligned(prog.world)) =>
        \A t \in HookedCompTypes :
            /\ HookCalls("on_remove", t) = (IF t \in TypesBefore THEN 1 ELSE 0)
            /\ HookCalls("on_add", t) = 0

\* despawn takes the entity out of the sparse sets of its signature and out of
\* its group
DespawnClearsStorage ==
    DespawnedAlive =>
        /\ \A index \in SignatureBefore :
               index < Len(app.components) /\ ~SparseSetContains(app.components[index + 1], prog.arg.entity.id)
        /\ SignatureBefore \in DOMAIN app.groups =>
               ~SparseSetContains(app.groups[SignatureBefore], prog.arg.entity.id)
        /\ ~SparseSetContains(app.entity_signatures, prog.arg.entity.id)

\* the commands of the hooks have been replayed when the call returns: the
\* buffer is empty and the resources hold what the last hooks inserted
HookCommandsReplayed ==
    ~app.panicked =>
        /\ app.command_buffer = << >>
        /\ \A j \in 1 .. Len(app.hooks) :
              (\A k \in (j + 1) .. Len(app.hooks) : app.hooks[k].hook # app.hooks[j].hook) =>
                  WorldGetResource(app, IF app.hooks[j].hook = "on_add" THEN "Added" ELSE "Removed")
                      = Some(app.hooks[j].value)

\* spawn calls on_add once for each component of the bundle, set_component on
\* an alive entity once for the component it stores
AddsOnce ==
    /\ (prog.op = "spawn" /\ ~app.panicked) =>
           \A t \in HookedCompTypes : HookCalls("on_add", t) = InBundle(t)
    /\ (prog.op = "set_component" /\ ~app.panicked /\ WorldIsAlive(prog.world, prog.arg.entity)) =>
           \A t \in HookedCompTypes :
               HookCalls("on_add", t) = (IF t = prog.arg.type THEN 1 ELSE 0)

\* C33: World::despawn of an alive entity calls on_remove exactly once for
\* each component whose bit is set in the signature of the entity and for no
\* other component, takes the entity out of those sparse sets and out of its
\* group, and the commands of the hooks are replayed before it returns; spawn
\* and set_component call on_add exactly once for each component they insert
C33_ComponentHooks ==
    /\ DespawnRemovesOnce
    /\ DespawnClearsStorage
    /\ HookCommandsReplayed
    /\ AddsOnce

(***************************************************************************)
(* The inputs of the observers: one slot each, and one queue               *)
(***************************************************************************)
\* the signals an observer has executed, in the order of the executions
ExecutedBy(o, i) ==
    LET mine == SelectSeq(o.executed, LAMBDA x : x.system_index = i)
    IN [k \in 1 .. Len(mine) |-> mine[k].input]

\* the indices of the signals of an event type, in the order they were sent
SentOf(o, event) ==
    SelectSeq([k \in 1 .. Len(o.sent) |-> k - 1], LAMBDA index : o.sent[index + 1] = event)

\* the signals an observer holds: the input in its slot, then its entries of
\* the queue
PendingOf(o, i) ==
    (IF o.system_inputs[i] = None THEN << >> ELSE << o.system_inputs[i][1] >>)
    \o LET mine == SelectSeq(o.queued_system_inputs, LAMBDA x : x.system_index = i)
       IN [k \in 1 .. Len(mine) |-> mine[k].input]

\* the dispatch has returned
Dispatched == prog.op = "execute" /\ ~app.panicked

\* C32: the signals of an observer are processed first-in first-out: a signal
\* that arrives while the observer holds an input is appended to the queue,
\* and so are the signals sent by the observers of a dispatch; when
\* execute_queried_systems returns no input is pending, and every signal sent
\* has been delivered to each observer of its event type exactly once, in the
\* order of the sends
C32_SignalsFifoExactlyOnce ==
    ~app.panicked =>
        /\ \A i \in 1 .. Len(app.observers.systems) :
              ExecutedBy(app.observers, i) \o PendingOf(app.observers, i)
                  = SentOf(app.observers, app.observers.systems[i].event)
        /\ Dispatched =>
              /\ \A i \in 1 .. Len(app.observers.systems) :
                    /\ app.observers.system_inputs[i] = None
                    /\ ExecutedBy(app.observers, i)
                           = SentOf(app.observers, app.observers.systems[i].event)
              /\ app.observers.queued_system_inputs = << >>
              /\ ~ObserversIsPending(app.observers)
              /\ app.command_buffer = << >>

\* a dispatch that started with two inputs in the queue, and during which an
\* observer sent a signal that was delivered
C32_Witness ==
    /\ Dispatched
    /\ Len(prog.world.observers.queued_system_inputs) >= 2
    /\ Len(app.observers.sent) > Len(prog.world.observers.sent)
    /\ \E i \in 1 .. Len(app.observers.systems) :
          /\ app.observers.systems[i].event = Other
          /\ Len(ExecutedBy(app.observers, i)) >= 2
====
